---- MODULE Spec2Model ----
(***************************************************************************)
(* A model of the scimpler core: the ValidationIssues aggregation tree     *)
(* (scimpler/error.py), the case-insensitive SCIMData container, attribute *)
(* names and representations (scimpler/container.py), the registry         *)
(* (registry.py), attribute validation and serialization, the bounded      *)
(* attributes of a schema (data/attributes.py) and the sorter              *)
(* (scimpler/data/sorter.py).                                              *)
(*                                                                         *)
(* Python dictionaries are modelled as functions whose DOMAIN is the key   *)
(* set; a defaultdict is a dictionary whose indexing inserts the key.      *)
(***************************************************************************)
EXTENDS Integers, Sequences, FiniteSets, TLC

VARIABLES self, other, recorded, clean, last, nops,
          scim, m0, clast, calls,
          text, rep,
          resources, schemas, unary_operators, binary_operators, firstSchema, rlast, regs,
          attribute, subject, outcome

issueVars == <<self, other, recorded, clean, last, nops>>
dataVars == <<scim, m0, clast, calls>>
parseVars == <<text, rep>>
registryVars ==
    <<resources, schemas, unary_operators, binary_operators, firstSchema, rlast, regs>>
attributeVars == <<attribute, subject, outcome>>
vars ==
    <<self, other, recorded, clean, last, nops, scim, m0, clast, calls, text, rep,
      resources, schemas, unary_operators, binary_operators, firstSchema, rlast, regs,
      attribute, subject, outcome>>

\* the variables an operation on one part of the program leaves alone
nonIssueVars == <<dataVars, parseVars, registryVars, attributeVars>>
nonDataVars == <<issueVars, parseVars, registryVars, attributeVars>>
nonParseVars == <<issueVars, dataVars, registryVars, attributeVars>>
nonRegistryVars == <<issueVars, dataVars, parseVars, attributeVars>>
nonAttributeVars == <<issueVars, dataVars, parseVars, registryVars>>

\* no string is being parsed
ParseIdle ==
    /\ text = <<>>
    /\ rep = [op |-> "init"]

\* nothing is registered
RegistryIdle ==
    /\ resources = <<>>
    /\ schemas = <<>>
    /\ unary_operators = <<>>
    /\ binary_operators = <<>>
    /\ firstSchema = <<>>
    /\ rlast = [op |-> "init"]
    /\ regs = 0

\* no attribute is validating a value
AttributeIdle ==
    /\ attribute = [kind |-> "none"]
    /\ subject = <<>>
    /\ outcome = [op |-> "init"]

(***************************************************************************)
(* Bounds of the model.                                                    *)
(***************************************************************************)
\* number of operations in one run on the issue trees
MaxOps == 3
\* number of set and pop calls in one run on a container
MaxCalls == 2

\* issue codes used by the operations (1 bad value, 2 bad type)
Codes == {1, 2}

\* the locations handed to the operations: the root, an attribute, one of its
\* sub-attributes, a sibling attribute
Locs == {<<>>, <<"a">>, <<"a", "b">>, <<"b">>}

\* An optional collection of codes: None, or a set of codes.
NoneFilter == [none |-> TRUE, codes |-> {}]
SomeFilter(c) == [none |-> FALSE, codes |-> c]
Filters == {NoneFilter, SomeFilter({}), SomeFilter({1})}

(***************************************************************************)
(* ValidationIssues                                                        *)
(***************************************************************************)
\* ValidationIssues.__init__: three empty defaultdicts
NewIssues == [errors |-> <<>>, warnings |-> <<>>, stop |-> <<>>, dd |-> TRUE]

\* location_[: len(location)] == location
StartsWith(l, p) == Len(p) <= Len(l) /\ SubSeq(l, 1, Len(p)) = p
\* location_[len(location) :]
Strip(l, p) == SubSeq(l, Len(p) + 1, Len(l))

\* dict.get(key, default)
DictGet(d, k, default) == IF k \in DOMAIN d THEN d[k] ELSE default

\* d[k] = v on a dictionary
DictPut(d, k, v) == [x \in DOMAIN d \cup {k} |-> IF x = k THEN v ELSE d[x]]

\* ValidationIssues.can_proceed for one location
CanProceed(t, l) == \A i \in 0..Len(l) : SubSeq(l, 1, i) \notin DOMAIN t.stop

\* the locations other's entries land on
MergedAt(keys, prefix) == {prefix \o k : k \in keys}

\* merge that forgets the blocking codes of the merged tree
MergeWithoutStop(t, o, prefix) ==
    [t EXCEPT
       !.errors = [l \in DOMAIN t.errors \cup MergedAt(DOMAIN o.errors, prefix) |->
                     DictGet(t.errors, l, <<>>) \o
                     (IF l \in MergedAt(DOMAIN o.errors, prefix)
                      THEN o.errors[Strip(l, prefix)] ELSE <<>>)],
       !.warnings = [l \in DOMAIN t.warnings \cup MergedAt(DOMAIN o.warnings, prefix) |->
                     DictGet(t.warnings, l, <<>>) \o
                     (IF l \in MergedAt(DOMAIN o.warnings, prefix)
                      THEN o.warnings[Strip(l, prefix)] ELSE <<>>)]]

\* merge that builds new_location as other_location + location
MergeSuffixesPrefix(t, o, prefix) ==
    LET At(keys) == {k \o prefix : k \in keys}
        Orig(l) == SubSeq(l, 1, Len(l) - Len(prefix))
    IN [t EXCEPT
       !.errors = [l \in DOMAIN t.errors \cup At(DOMAIN o.errors) |->
                     DictGet(t.errors, l, <<>>) \o
                     (IF l \in At(DOMAIN o.errors) THEN o.errors[Orig(l)] ELSE <<>>)],
       !.stop = [l \in DOMAIN t.stop \cup At(DOMAIN o.errors) |->
                     DictGet(t.stop, l, {}) \cup
                     (IF l \in At(DOMAIN o.errors)
                      THEN DictGet(o.stop, Orig(l), {}) ELSE {})],
       !.warnings = [l \in DOMAIN t.warnings \cup At(DOMAIN o.warnings) |->
                     DictGet(t.warnings, l, <<>>) \o
                     (IF l \in At(DOMAIN o.warnings) THEN o.warnings[Orig(l)] ELSE <<>>)]]

\* ValidationIssues.merge(issues=o, location=prefix) on a tree t of defaultdicts:
\* self._errors[new_location] and self._stop_proceeding[new_location] insert
\* the key when it is missing; issues._stop_proceeding.get(...) does not.
Merge(t, o, prefix) ==
    [t EXCEPT
       !.errors = [l \in DOMAIN t.errors \cup MergedAt(DOMAIN o.errors, prefix) |->
                     DictGet(t.errors, l, <<>>) \o
                     (IF l \in MergedAt(DOMAIN o.errors, prefix)
                      THEN o.errors[Strip(l, prefix)] ELSE <<>>)],
       !.stop = [l \in DOMAIN t.stop \cup MergedAt(DOMAIN o.errors, prefix) |->
                     DictGet(t.stop, l, {}) \cup
                     (IF l \in MergedAt(DOMAIN o.errors, prefix)
                      THEN DictGet(o.stop, Strip(l, prefix), {}) ELSE {})],
       !.warnings = [l \in DOMAIN t.warnings \cup MergedAt(DOMAIN o.warnings, prefix) |->
                     DictGet(t.warnings, l, <<>>) \o
                     (IF l \in MergedAt(DOMAIN o.warnings, prefix)
                      THEN o.warnings[Strip(l, prefix)] ELSE <<>>)]]

\* [issue for issue in issues if codes is None or issue.code in codes]
KeepCodes(issues, f) == SelectSeq(issues, LAMBDA c : f.none \/ c \in f.codes)

\* {code for code in codes if not error_codes or code in error_codes}:
\* "not error_codes" is true for None and for an empty collection alike
KeepStopCodes(codes, f) ==
    {c \in codes : (f.none \/ f.codes = {}) \/ c \in f.codes}

\* one of the three loops of ValidationIssues.get over a dictionary of lists
GetLists(d, f, loc) ==
    LET kept == {l \in DOMAIN d : StartsWith(l, loc) /\ KeepCodes(d[l], f) # <<>>}
    IN [k \in {Strip(l, loc) : l \in kept} |-> KeepCodes(d[loc \o k], f)]

\* the loop of ValidationIssues.get over _stop_proceeding
GetStop(d, f, loc) ==
    LET kept == {l \in DOMAIN d : StartsWith(l, loc) /\ KeepStopCodes(d[l], f) # {}}
    IN [k \in {Strip(l, loc) : l \in kept} |-> KeepStopCodes(d[loc \o k], f)]

\* ValidationIssues.get: the copy holds plain dictionaries, not defaultdicts
Get(t, ec, wc, loc) ==
    [errors |-> GetLists(t.errors, ec, loc),
     warnings |-> GetLists(t.warnings, wc, loc),
     stop |-> GetStop(t.stop, ec, loc),
     dd |-> FALSE]

\* ValidationIssues.add_error; on a tree of plain dictionaries (a copy made by
\* get) indexing a missing key raises KeyError, after the append when the
\* missing key is the one of _stop_proceeding
AddError(t, c, proceed, loc) ==
    IF ~t.dd /\ loc \notin DOMAIN t.errors
    THEN [tree |-> t, raised |-> "KeyError"]
    ELSE LET appended == [t EXCEPT !.errors =
                             DictPut(t.errors, loc, Append(DictGet(t.errors, loc, <<>>), c))]
         IN IF proceed
            THEN [tree |-> appended, raised |-> "none"]
            ELSE IF ~t.dd /\ loc \notin DOMAIN t.stop
                 THEN [tree |-> appended, raised |-> "KeyError"]
                 ELSE [tree |-> [appended EXCEPT !.stop =
                                   DictPut(t.stop, loc, DictGet(t.stop, loc, {}) \cup {c})],
                       raised |-> "none"]

\* ValidationIssues.add_warning
AddWarning(t, c, loc) ==
    IF ~t.dd /\ loc \notin DOMAIN t.warnings
    THEN [tree |-> t, raised |-> "KeyError"]
    ELSE [tree |-> [t EXCEPT !.warnings =
                      DictPut(t.warnings, loc, Append(DictGet(t.warnings, loc, <<>>), c))],
          raised |-> "none"]

(***************************************************************************)
(* Operations on two issue trees: self (always built by the constructor)   *)
(* and other (built by the constructor or returned by get).                *)
(* recorded: the locations of each tree at which a completed add_error     *)
(* with proceed=False stored an error, carried along by merge.             *)
(* clean: the tree was built by add_warning, add_error(proceed=True) and   *)
(* merge of such trees only.                                               *)
(***************************************************************************)
Op(name, pre, arg, prefix, ec, wc, raised) ==
    [op |-> name, pre |-> pre, arg |-> arg, prefix |-> prefix,
     ec |-> ec, wc |-> wc, raised |-> raised]

IssuesInit ==
    /\ self = NewIssues
    /\ other = NewIssues
    /\ recorded = [self |-> {}, other |-> {}]
    /\ clean = [self |-> TRUE, other |-> TRUE]
    /\ last = Op("init", NewIssues, NewIssues, <<>>, NoneFilter, NoneFilter, "none")
    /\ nops = 0
    /\ scim = [data |-> <<>>, idx |-> <<>>]
    /\ m0 = <<>>
    /\ clast = [op |-> "init"]
    /\ calls = 0
    /\ ParseIdle
    /\ RegistryIdle
    /\ AttributeIdle

AddErrorSelf ==
    \E c \in Codes, proceed \in BOOLEAN, loc \in Locs :
      LET r == AddError(self, c, proceed, loc) IN
        /\ nops < MaxOps
        /\ self' = r.tree
        /\ recorded' = IF proceed THEN recorded
                       ELSE [recorded EXCEPT !.self = @ \cup {loc}]
        /\ clean' = [clean EXCEPT !.self = @ /\ proceed]
        /\ last' = Op("add_error", self, other, loc, NoneFilter, NoneFilter, r.raised)
        /\ nops' = nops + 1
        /\ UNCHANGED other
        /\ UNCHANGED nonIssueVars

AddErrorOther ==
    \E c \in Codes, proceed \in BOOLEAN, loc \in Locs :
      LET r == AddError(other, c, proceed, loc) IN
        /\ nops < MaxOps
        /\ other' = r.tree
        /\ recorded' = IF proceed \/ r.raised # "none" THEN recorded
                       ELSE [recorded EXCEPT !.other = @ \cup {loc}]
        /\ clean' = [clean EXCEPT !.other = @ /\ proceed]
        /\ last' = Op("add_error_other", self, other, loc, NoneFilter, NoneFilter, r.raised)
        /\ nops' = nops + 1
        /\ UNCHANGED self
        /\ UNCHANGED nonIssueVars

AddWarningSelf ==
    \E c \in Codes, loc \in Locs :
      /\ nops < MaxOps
      /\ self' = AddWarning(self, c, loc).tree
      /\ last' = Op("add_warning", self, other, loc, NoneFilter, NoneFilter, "none")
      /\ nops' = nops + 1
      /\ UNCHANGED <<other, recorded, clean>>
      /\ UNCHANGED nonIssueVars

AddWarningOther ==
    \E c \in Codes, loc \in Locs :
      LET r == AddWarning(other, c, loc) IN
        /\ nops < MaxOps
        /\ other' = r.tree
        /\ last' = Op("add_warning_other", self, other, loc, NoneFilter, NoneFilter, r.raised)
        /\ nops' = nops + 1
        /\ UNCHANGED <<self, recorded, clean>>
        /\ UNCHANGED nonIssueVars

\* self.merge(other, prefix)
MergeOther ==
    \E prefix \in Locs :
      /\ nops < MaxOps
      /\ self' = Merge(self, other, prefix)
      /\ recorded' = [recorded EXCEPT !.self = @ \cup MergedAt(recorded.other, prefix)]
      /\ clean' = [clean EXCEPT !.self = @ /\ clean.other]
      /\ last' = Op("merge", self, other, prefix, NoneFilter, NoneFilter, "none")
      /\ nops' = nops + 1
      /\ UNCHANGED other
      /\ UNCHANGED nonIssueVars

\* other.merge(self, prefix), for an other built by the constructor
MergeIntoOther ==
    \E prefix \in Locs :
      /\ nops < MaxOps
      /\ other.dd
      /\ other' = Merge(other, self, prefix)
      /\ recorded' = [recorded EXCEPT !.other = @ \cup MergedAt(recorded.self, prefix)]
      /\ clean' = [clean EXCEPT !.other = @ /\ clean.self]
      /\ last' = Op("merge_into_other", self, other, prefix, NoneFilter, NoneFilter, "none")
      /\ nops' = nops + 1
      /\ UNCHANGED self
      /\ UNCHANGED nonIssueVars

\* other = self.get(error_codes, warning_codes, location)
GetOther ==
    \E ec \in Filters, wc \in Filters, loc \in Locs :
      /\ nops < MaxOps
      /\ other' = Get(self, ec, wc, loc)
      /\ recorded' = [recorded EXCEPT !.other = {}]
      /\ clean' = [clean EXCEPT !.other = FALSE]
      /\ last' = Op("get", self, other, loc, ec, wc, "none")
      /\ nops' = nops + 1
      /\ UNCHANGED self
      /\ UNCHANGED nonIssueVars

\* other = ValidationIssues()
FreshOther ==
    /\ nops < MaxOps
    /\ other # NewIssues
    /\ other' = NewIssues
    /\ recorded' = [recorded EXCEPT !.other = {}]
    /\ clean' = [clean EXCEPT !.other = TRUE]
    /\ last' = Op("new", self, other, <<>>, NoneFilter, NoneFilter, "none")
    /\ nops' = nops + 1
    /\ UNCHANGED self
    /\ UNCHANGED nonIssueVars

IssuesNext ==
    \/ AddErrorSelf
    \/ AddErrorOther
    \/ AddWarningSelf
    \/ AddWarningOther
    \/ MergeOther
    \/ MergeIntoOther
    \/ GetOther
    \/ FreshOther

SpecIssues == IssuesInit /\ [][IssuesNext]_vars

(***************************************************************************)
(* Claims about ValidationIssues                                           *)
(***************************************************************************)
\* every location below l, l included, as far as the operations address them
Below(l) == {l \o e : e \in Locs}

\* C1: can_proceed(loc) is false whenever a non-proceedable error was
\* recorded at loc or at any prefix of loc, the root included, also when
\* nothing was recorded at loc itself, after any add_error, add_warning, merge.
C1_RecordedBlocksBelow ==
    /\ \A l \in recorded.self : \A q \in Below(l) : ~CanProceed(self, q)
    /\ \A l \in recorded.other : \A q \in Below(l) : ~CanProceed(other, q)

\* C1 witness: a blocking error reached self at ("a",) through a merge, nothing
\* is stored at ("a","b"), and can_proceed(("a","b")) is false
C1_Witness ==
    /\ last.op = "merge"
    /\ <<"a">> \in recorded.self
    /\ <<"a">> \notin recorded.other
    /\ <<"a", "b">> \notin DOMAIN self.errors \cup DOMAIN self.warnings \cup DOMAIN self.stop
    /\ ~CanProceed(self, <<"a", "b">>)

\* C2: a tree built by add_warning, add_error(proceed=True) and merge of such
\* trees lets every location proceed, the root included.
C2_CleanTreeProceeds ==
    /\ clean.self => \A l \in Locs : CanProceed(self, l)
    /\ clean.other => \A l \in Locs : CanProceed(other, l)

\* the locations a tree holds anything at
LocationsOf(t) == DOMAIN t.errors \cup DOMAIN t.warnings \cup DOMAIN t.stop

\* C3: merge(other, prefix) loses nothing and invents nothing: at prefix+L self
\* holds its previous errors followed by other's errors at L, likewise for the
\* warnings, and the union of the blocking codes; every other location of self
\* and the whole of other are unchanged.
C3_MergeLosesNothing ==
    last.op = "merge" =>
      /\ \A L \in LocationsOf(last.arg) :
           /\ DictGet(self.errors, last.prefix \o L, <<>>)
                = DictGet(last.pre.errors, last.prefix \o L, <<>>)
                    \o DictGet(last.arg.errors, L, <<>>)
           /\ DictGet(self.warnings, last.prefix \o L, <<>>)
                = DictGet(last.pre.warnings, last.prefix \o L, <<>>)
                    \o DictGet(last.arg.warnings, L, <<>>)
           /\ DictGet(self.stop, last.prefix \o L, {})
                = DictGet(last.pre.stop, last.prefix \o L, {})
                    \cup DictGet(last.arg.stop, L, {})
      /\ \A l \in (LocationsOf(self) \cup LocationsOf(last.pre))
                    \ MergedAt(LocationsOf(last.arg), last.prefix) :
           /\ DictGet(self.errors, l, <<>>) = DictGet(last.pre.errors, l, <<>>)
           /\ DictGet(self.warnings, l, <<>>) = DictGet(last.pre.warnings, l, <<>>)
           /\ DictGet(self.stop, l, {}) = DictGet(last.pre.stop, l, {})
      /\ other = last.arg

\* neither prefix is a prefix of the other
Disjoint(p, q) == ~StartsWith(p, q) /\ ~StartsWith(q, p)

\* the location->errors, location->warnings, location->blocking codes content
Content(t) == <<t.errors, t.warnings, t.stop>>

\* C4: merging trees into one parent under pairwise disjoint prefixes gives
\* the same content whatever the order of the merge calls, and merging B into
\* A then A into P equals merging A into P then B into P at the composed prefix.
C4_MergeOrderIrrelevant ==
    LET P == self
        A == other
        B == last.pre
    IN /\ \A p \in Locs, q \in Locs :
            Disjoint(p, q) =>
              Content(Merge(Merge(P, A, p), B, q)) = Content(Merge(Merge(P, B, q), A, p))
       /\ \A p \in Locs, q \in Locs :
            A.dd =>
              Content(Merge(P, Merge(A, B, q), p)) = Content(Merge(Merge(P, A, p), B, p \o q))

\* C4 witness: three non-empty trees, the two merged ones both holding errors
\* and one of them a blocking code
C4_Witness ==
    /\ other.dd
    /\ DOMAIN self.errors # {}
    /\ DOMAIN other.errors # {}
    /\ DOMAIN last.pre.errors # {}
    /\ \E l \in DOMAIN other.stop : other.stop[l] # {}
    /\ Content(Merge(Merge(self, other, <<"a">>), last.pre, <<"b">>))
         # Content(Merge(self, other, <<"a">>))

\* get as the claim states it: the entries under the prefix, re-keyed, whose
\* code the filter keeps; an omitted filter keeps every code
Kept(c, f) == f.none \/ c \in f.codes
ExpectedLists(d, f, loc) ==
    LET kept == {l \in DOMAIN d : StartsWith(l, loc) /\ \E i \in 1..Len(d[l]) : Kept(d[l][i], f)}
    IN [k \in {Strip(l, loc) : l \in kept} |->
          SelectSeq(d[loc \o k], LAMBDA c : Kept(c, f))]
ExpectedStop(d, f, loc) ==
    LET kept == {l \in DOMAIN d : StartsWith(l, loc) /\ \E c \in d[l] : Kept(c, f)}
    IN [k \in {Strip(l, loc) : l \in kept} |-> {c \in d[loc \o k] : Kept(c, f)}]

\* C5: get(error_codes, warning_codes, location) returns exactly the entries
\* of self under the prefix whose code is in the filter, for errors, warnings
\* and blocking codes alike; the result carries no blocking code at a location
\* where it carries no error with that code; self is unchanged.
C5_GetKeepsExactlyTheFiltered ==
    last.op = "get" =>
      /\ other.errors = ExpectedLists(last.pre.errors, last.ec, last.prefix)
      /\ other.warnings = ExpectedLists(last.pre.warnings, last.wc, last.prefix)
      /\ other.stop = ExpectedStop(last.pre.stop, last.ec, last.prefix)
      /\ \A l \in DOMAIN other.stop : \A c \in other.stop[l] :
           /\ l \in DOMAIN other.errors
           /\ \E i \in 1..Len(other.errors[l]) : other.errors[l][i] = c
      /\ self = last.pre

(***************************************************************************)
(* SCIMData                                                                *)
(*                                                                         *)
(* Values are tagged: a scalar, a list, a plain mapping (dict), a          *)
(* container (SCIMData, holding _data and _lower_case_to_original) and the *)
(* Missing marker.  A dict in insertion order is a sequence of             *)
(* <<key, value>> pairs.  Containers are held by value: a container        *)
(* reached through its parent is written back into the parent.             *)
(***************************************************************************)
Value(t, n, items, kv, idx) == [t |-> t, n |-> n, items |-> items, kv |-> kv, idx |-> idx]
Scalar(x) == Value("scalar", x, <<>>, <<>>, <<>>)
List(items) == Value("list", 0, items, <<>>, <<>>)
RawDict(kv) == Value("dict", 0, <<>>, kv, <<>>)
Scim(c) == Value("scim", 0, <<>>, c.data, c.idx)
Missing == Value("missing", 0, <<>>, <<>>, <<>>)
\* the container a "scim" value is
COf(value) == [data |-> value.kv, idx |-> value.idx]

\* SCIMData(): empty _data, empty _lower_case_to_original
EmptyContainer == [data |-> <<>>, idx |-> <<>>]

\* str.lower() on the keys of the model
Lower(k) ==
    CASE k = "NAME" -> "name"
      [] k = "GIVEN" -> "given"
      [] k = "Given" -> "given"
      [] k = "URN:EXT" -> "urn:ext"
      [] k = "URN:USER" -> "urn:user"
      [] k = "URN" -> "urn"
      [] k = "EXT" -> "ext"
      [] k = "USER" -> "user"
      [] k = "B" -> "b"
      [] k = "PR" -> "pr"
      [] k = "EQ" -> "eq"
      [] OTHER -> k

\* scimpler.registry.schemas: schema URI -> is it an extension
Schemas == [u \in {"urn:user", "urn:ext"} |-> u = "urn:ext"]

\* the dict operations on a sequence of <<key, value>> pairs
OHas(kv, k) == \E i \in DOMAIN kv : kv[i][1] = k
OGet(kv, k) == kv[CHOOSE i \in DOMAIN kv : kv[i][1] = k][2]
OSet(kv, k, v) ==
    IF OHas(kv, k)
    THEN [i \in DOMAIN kv |-> IF kv[i][1] = k THEN <<k, v>> ELSE kv[i]]
    ELSE Append(kv, <<k, v>>)
ODel(kv, k) == SelectSeq(kv, LAMBDA p : p[1] # k)
OKeys(kv) == {kv[i][1] : i \in DOMAIN kv}

\* the keys set and get are called with, after _normalize
SchemaKey(schema) == [kind |-> "schema", schema |-> schema, attr |-> "", sub |-> "", ext |-> TRUE]
AttrKey(attr, sub) == [kind |-> "attr", schema |-> "", attr |-> attr, sub |-> sub, ext |-> FALSE]
BoundedAttrKey(schema, attr, sub, ext) ==
    [kind |-> "bounded", schema |-> schema, attr |-> attr, sub |-> sub, ext |-> ext]

\* a path as the caller writes it: [schema:]attr[.sub], or a schema URI alone
Path(schema, attr, sub) == [schema |-> schema, attr |-> attr, sub |-> sub]

\* a path resolution that ignores the schema a path is qualified with
NormalizeUnbound(p) ==
    IF p.attr = "" THEN SchemaKey(p.schema) ELSE AttrKey(p.attr, p.sub)

\* SCIMData._normalize on a path whose schema, if any, is registered
Normalize(p) ==
    IF p.attr = "" THEN SchemaKey(p.schema)
    ELSE IF p.schema # "" THEN BoundedAttrKey(p.schema, p.attr, p.sub, Schemas[Lower(p.schema)])
    ELSE AttrKey(p.attr, p.sub)

\* a set that leaves the entry stored under the old casing in place
PopOriginalNever(data, original) == data

\* if original_key := self._lower_case_to_original.get(key.lower()):
\*     self._data.pop(original_key, None)
PopOriginal(data, original) == IF original # "" THEN ODel(data, original) ELSE data

\* SCIMData.__init__ from a mapping, one (key, value) after the other
RECURSIVE Construct(_)
NormalizeItem(item) == IF item.t = "dict" THEN Scim(Construct(item.kv)) ELSE item
ConstructValue(value) ==
    IF value.t = "dict" THEN Scim(Construct(value.kv))
    ELSE IF value.t = "list"
         THEN List([i \in DOMAIN value.items |-> NormalizeItem(value.items[i])])
         ELSE value
\* __init__ that stores the entry under the lower-cased key
ConstructStepLowerKey(c, key, value) ==
    [data |-> OSet(PopOriginal(c.data, DictGet(c.idx, Lower(key), "")),
                   Lower(key), ConstructValue(value)),
     idx |-> DictPut(c.idx, Lower(key), Lower(key))]

ConstructStep(c, key, value) ==
    [data |-> OSet(PopOriginal(c.data, DictGet(c.idx, Lower(key), "")),
                   key, ConstructValue(value)),
     idx |-> DictPut(c.idx, Lower(key), key)]
Construct(kv) ==
    IF kv = <<>> THEN EmptyContainer
    ELSE LET n == Len(kv)
         IN ConstructStep(Construct(SubSeq(kv, 1, n - 1)), kv[n][1], kv[n][2])

\* SCIMData.to_dict
RECURSIVE ToDict(_)
ToDictDictItem(v) == IF v.t = "scim" THEN RawDict(ToDict(COf(v))) ELSE v
ToDictItem(item) ==
    IF item.t = "scim" THEN RawDict(ToDict(COf(item)))
    ELSE IF item.t = "dict"
         THEN RawDict([i \in DOMAIN item.kv |-> <<item.kv[i][1], ToDictDictItem(item.kv[i][2])>>])
         ELSE item
ToDictValue(value) ==
    IF value.t = "scim" THEN RawDict(ToDict(COf(value)))
    ELSE IF value.t = "list"
         THEN List([i \in DOMAIN value.items |-> ToDictItem(value.items[i])])
         ELSE value
ToDict(c) == [i \in DOMAIN c.data |-> <<c.data[i][1], ToDictValue(c.data[i][2])>>]

\* a compatibility check that accepts every parent
IsChildValueCompatibleAlways(parent_value, child_value) == TRUE

\* SCIMData._is_child_value_compatible
IsChildValueCompatible(parent_value, child_value) ==
    IF parent_value.t = "list" THEN child_value.t = "list"
    ELSE parent_value.t = "scim"

Done(c) == [c |-> c, raised |-> "none"]
Raise(c, what) == [c |-> c, raised |-> what]

\* SCIMData.set with a normalized key.  "KeyError" is the addressing error
\* raised by set itself; "LookupError" is a KeyError of an internal
\* self._data[...] lookup; "AttributeError" is a .set on a non-container.
RECURSIVE SetKey(_, _, _)
SetKey(c, key, value) ==
    IF key.kind = "schema"
    THEN LET found == DictGet(c.idx, Lower(key.schema), "")
             extension == IF found = "" THEN key.schema ELSE found
             idx1 == IF found = "" THEN DictPut(c.idx, Lower(key.schema), key.schema)
                     ELSE c.idx
         IN Done([data |-> OSet(c.data, extension, value), idx |-> idx1])
    ELSE IF key.kind = "bounded" /\ key.ext
    THEN LET found == DictGet(c.idx, Lower(key.schema), "")
             extension == IF found = "" THEN key.schema ELSE found
             c1 == IF found = ""
                   THEN [data |-> OSet(c.data, extension, Scim(EmptyContainer)),
                         idx |-> DictPut(c.idx, Lower(key.schema), extension)]
                   ELSE c
         IN IF ~OHas(c1.data, extension) THEN Raise(c1, "LookupError")
            ELSE IF OGet(c1.data, extension).t # "scim" THEN Raise(c1, "AttributeError")
            ELSE LET r == SetKey(COf(OGet(c1.data, extension)), AttrKey(key.attr, key.sub), value)
                 IN [c |-> [c1 EXCEPT !.data = OSet(c1.data, extension, Scim(r.c))],
                     raised |-> r.raised]
    ELSE IF key.sub = ""
    THEN LET popped == PopOriginal(c.data, DictGet(c.idx, Lower(key.attr), ""))
         IN Done([data |-> OSet(popped, key.attr, value),
                  idx |-> DictPut(c.idx, Lower(key.attr), key.attr)])
    ELSE LET found == DictGet(c.idx, Lower(key.attr), "")
             parent_attr_key == IF found = "" THEN key.attr ELSE found
             c1 == IF found = ""
                   THEN [data |-> OSet(c.data, parent_attr_key, Scim(EmptyContainer)),
                         idx |-> DictPut(c.idx, Lower(parent_attr_key), parent_attr_key)]
                   ELSE c
             stored == c1.idx[Lower(parent_attr_key)]
         IN IF ~OHas(c1.data, stored) THEN Raise(c1, "LookupError")
            ELSE IF ~IsChildValueCompatible(OGet(c1.data, stored), value)
                 THEN Raise(c1, "KeyError")
            ELSE IF OGet(c1.data, parent_attr_key).t # "scim"
                 THEN Raise(c1, "AttributeError")
            ELSE LET r == SetKey(COf(OGet(c1.data, parent_attr_key)), AttrKey(key.sub, ""), value)
                 IN [c |-> [c1 EXCEPT !.data = OSet(c1.data, parent_attr_key, Scim(r.c))],
                     raised |-> r.raised]

Val(v) == [val |-> v, raised |-> "none"]
Err(what) == [val |-> Missing, raised |-> what]

\* SCIMData.get with a normalized key.  "TypeError" is dict.get with the
\* unhashable _AttrKey; "AttributeError" is .get on a list or a scalar.
RECURSIVE GetKey(_, _, _)
GetKey(c, key, default) ==
    IF key.kind = "schema"
    THEN LET extension == DictGet(c.idx, Lower(key.schema), "")
         IN IF extension = "" THEN Val(default)
            ELSE Val(IF OHas(c.data, extension) THEN OGet(c.data, extension) ELSE default)
    ELSE IF key.kind = "bounded" /\ key.ext
    THEN LET extension == DictGet(c.idx, Lower(key.schema), "")
         IN IF extension = "" THEN Val(default)
            ELSE IF ~OHas(c.data, extension) THEN Err("LookupError")
            ELSE IF OGet(c.data, extension).t = "scim"
                 THEN GetKey(COf(OGet(c.data, extension)), AttrKey(key.attr, key.sub), Missing)
            ELSE IF OGet(c.data, extension).t = "dict" THEN Err("TypeError")
            ELSE Err("AttributeError")
    ELSE LET attr == DictGet(c.idx, Lower(key.attr), "")
         IN IF attr = "" THEN Val(default)
            ELSE IF key.sub # ""
            THEN IF ~OHas(c.data, attr) THEN Err("LookupError")
                 ELSE LET attr_value == OGet(c.data, attr)
                      IN IF attr_value.t = "scim"
                         THEN GetKey(COf(attr_value), AttrKey(key.sub, ""), Missing)
                         ELSE IF attr_value.t = "list"
                         THEN Val(List([i \in DOMAIN attr_value.items |->
                                IF attr_value.items[i].t = "scim"
                                THEN GetKey(COf(attr_value.items[i]), AttrKey(key.sub, ""), Missing).val
                                ELSE default]))
                         ELSE Val(default)
            ELSE Val(IF OHas(c.data, attr) THEN OGet(c.data, attr) ELSE default)

Popped(c, v) == [c |-> c, val |-> v, raised |-> "none"]
PopErr(c, what) == [c |-> c, val |-> Missing, raised |-> what]

\* SCIMData.pop with a normalized key.  "TypeError" is dict.pop with the
\* unhashable _AttrKey or list.pop with two arguments.
RECURSIVE PopKey(_, _, _)
PopKey(c, key, default) ==
    IF key.kind = "schema"
    THEN LET extension == DictGet(c.idx, Lower(key.schema), "")
         IN IF extension = "" THEN Popped(c, default)
            ELSE IF OHas(c.data, extension)
                 THEN Popped([c EXCEPT !.data = ODel(c.data, extension)], OGet(c.data, extension))
                 ELSE Popped(c, default)
    ELSE IF key.kind = "bounded" /\ key.ext
    THEN LET extension == DictGet(c.idx, Lower(key.schema), "")
         IN IF extension = "" THEN Popped(c, default)
            ELSE IF ~OHas(c.data, extension) THEN PopErr(c, "LookupError")
            ELSE IF OGet(c.data, extension).t = "scim"
                 THEN LET r == PopKey(COf(OGet(c.data, extension)),
                                      AttrKey(key.attr, key.sub), default)
                      IN [c |-> [c EXCEPT !.data = OSet(c.data, extension, Scim(r.c))],
                          val |-> r.val, raised |-> r.raised]
            ELSE IF OGet(c.data, extension).t \in {"dict", "list"} THEN PopErr(c, "TypeError")
            ELSE PopErr(c, "AttributeError")
    ELSE LET attr == DictGet(c.idx, Lower(key.attr), "")
         IN IF attr = "" THEN Popped(c, default)
            ELSE IF key.sub # ""
            THEN IF ~OHas(c.data, attr) THEN PopErr(c, "LookupError")
                 ELSE LET attr_value == OGet(c.data, attr)
                      IN IF attr_value.t = "scim"
                         THEN LET r == PopKey(COf(attr_value), AttrKey(key.sub, ""), default)
                              IN [c |-> [c EXCEPT !.data = OSet(c.data, attr, Scim(r.c))],
                                  val |-> r.val, raised |-> r.raised]
                         ELSE IF attr_value.t = "list"
                         THEN LET each == [i \in DOMAIN attr_value.items |->
                                    IF attr_value.items[i].t = "scim"
                                    THEN PopKey(COf(attr_value.items[i]), AttrKey(key.sub, ""), default)
                                    ELSE Popped(EmptyContainer, default)]
                                  items == [i \in DOMAIN attr_value.items |->
                                    IF attr_value.items[i].t = "scim"
                                    THEN Scim(each[i].c) ELSE attr_value.items[i]]
                              IN Popped([c EXCEPT !.data = OSet(c.data, attr, List(items))],
                                        List([i \in DOMAIN attr_value.items |-> each[i].val]))
                         ELSE Popped(c, default)
            ELSE LET idx1 == [k \in DOMAIN c.idx \ {Lower(key.attr)} |-> c.idx[k]]
                 IN IF OHas(c.data, attr)
                    THEN Popped([data |-> ODel(c.data, attr), idx |-> idx1], OGet(c.data, attr))
                    ELSE Popped([c EXCEPT !.idx = idx1], default)

(***************************************************************************)
(* Attribute names, schema URIs and attribute representations.  A string   *)
(* is a sequence of chunks; a chunk is one character, or a run of ASCII    *)
(* letters.  The regular expressions of container.py are matched on the    *)
(* chunks.                                                                 *)
(***************************************************************************)
\* runs of [a-zA-Z]
AsciiLetters ==
    {"a", "b", "B", "ref", "st", "name", "NAME", "given", "GIVEN", "Given",
     "urn", "URN", "ext", "EXT", "user", "USER", "nope"}
\* capital sigma, small sigma, final small sigma
Sigmas == {"Σ", "σ", "ς"}
\* letters that have a case
Cased == AsciiLetters \cup Sigmas \cup {"é"}
\* \w
WordChunks == Cased \cup {"1", "_"}
\* [\w$-]
NameChunks == WordChunks \cup {"$", "-"}
\* [\w.-]
UriChunks == WordChunks \cup {".", "-"}
\* characters str.lower() skips when it looks for the end of a word
CaseIgnorable == {".", ":"}

\* the string the chunks spell
RECURSIVE Str(_)
Str(s) == IF s = <<>> THEN "" ELSE s[1] \o Str(Tail(s))

\* the chunks of the keys a container of the model stores
Chunks(k) ==
    CASE k = "urn:ext" -> <<"urn", ":", "ext">>
      [] k = "URN:EXT" -> <<"URN", ":", "EXT">>
      [] k = "urn:user" -> <<"urn", ":", "user">>
      [] k = "URN:USER" -> <<"URN", ":", "USER">>
      [] k = "name.given" -> <<"name", ".", "given">>
      [] k = "1st" -> <<"1", "st">>
      [] OTHER -> <<k>>

\* str.lower(): a capital sigma that ends a word becomes the final sigma
CasedBefore(s, i) ==
    \E j \in 1..(i - 1) :
      s[j] \in Cased /\ \A k \in (j + 1)..(i - 1) : s[k] \in CaseIgnorable
CasedAfter(s, i) ==
    \E j \in (i + 1)..Len(s) :
      s[j] \in Cased /\ \A k \in (i + 1)..(j - 1) : s[k] \in CaseIgnorable
LowerChunks(s) ==
    [i \in DOMAIN s |->
       IF s[i] = "Σ"
       THEN IF CasedBefore(s, i) /\ ~CasedAfter(s, i) THEN "ς" ELSE "σ"
       ELSE Lower(s[i])]
StrLower(s) == Str(LowerChunks(s))

\* _ATTR_NAME.fullmatch
MatchAttrName(s) ==
    \/ /\ Len(s) >= 1
       /\ s[1] \in AsciiLetters
       /\ \A i \in 2..Len(s) : s[i] \in NameChunks
    \/ s = <<"$", "ref">>

\* AttrName(value): the name, or ValueError
AttrNameNew(s) == [ok |-> MatchAttrName(s), raised |-> IF MatchAttrName(s) THEN "none" ELSE "ValueError"]
\* AttrName.__eq__
AttrNameEq(s, t) == StrLower(s) = StrLower(t)
\* AttrName.__hash__: the hash of the lower-cased string, written as that string
AttrNameHash(s) == StrLower(s)

\* _URI_PREFIX.fullmatch
MatchUriPrefix(s) ==
    \/ s = <<>>
    \/ /\ s[Len(s)] = ":"
       /\ s[1] # ":"
       /\ \A i \in DOMAIN s : s[i] = ":" \/ s[i] \in UriChunks
       /\ \A i \in 1..(Len(s) - 1) : ~(s[i] = ":" /\ s[i + 1] = ":")
\* SchemaURI(value) does not raise
SchemaURIValid(s) == MatchUriPrefix(Append(s, ":"))
\* SchemaURI(value) in schemas
InSchemas(s) == StrLower(s) \in DOMAIN Schemas

\* the split of _ATTR_REP: the prefix ends at the last colon
LastColon(s) ==
    IF \E i \in DOMAIN s : s[i] = ":"
    THEN CHOOSE i \in DOMAIN s : s[i] = ":" /\ \A j \in (i + 1)..Len(s) : s[j] # ":"
    ELSE 0
Dots(s) == {i \in DOMAIN s : s[i] = "."}
SchemaPart(s) == SubSeq(s, 1, LastColon(s) - 1)
AttrPart(s) == SubSeq(s, LastColon(s) + 1, Len(s))
\* attr.split(".")
NamePart(a) == IF Dots(a) = {} THEN a ELSE SubSeq(a, 1, (CHOOSE i \in Dots(a) : TRUE) - 1)
SubPart(a) == IF Dots(a) = {} THEN <<>> ELSE SubSeq(a, (CHOOSE i \in Dots(a) : TRUE) + 1, Len(a))
\* _ATTR_REP.fullmatch
MatchAttrRep(s) ==
    /\ MatchUriPrefix(SubSeq(s, 1, LastColon(s)))
    /\ LET a == AttrPart(s)
       IN /\ Cardinality(Dots(a)) <= 1
          /\ MatchAttrName(NamePart(a))
          /\ Dots(a) # {} => MatchAttrName(SubPart(a))

NoRep == [ok |-> FALSE, kind |-> "none", schema |-> "", attr |-> "", sub |-> "", extension |-> FALSE]
\* a deserialize that binds a path to any schema prefix, registered or not
DeserializeAnySchema(s) ==
    IF ~MatchAttrRep(s) THEN NoRep
    ELSE IF SchemaPart(s) # <<>>
         THEN [ok |-> TRUE, kind |-> "BoundedAttrRep", schema |-> Str(SchemaPart(s)),
               attr |-> Str(NamePart(AttrPart(s))), sub |-> Str(SubPart(AttrPart(s))),
               extension |-> DictGet(Schemas, StrLower(SchemaPart(s)), FALSE)]
         ELSE [ok |-> TRUE, kind |-> "AttrRep", schema |-> "",
               attr |-> Str(NamePart(AttrPart(s))), sub |-> Str(SubPart(AttrPart(s))),
               extension |-> FALSE]
\* AttrRepFactory.deserialize: the representation, or ValueError (ok = FALSE)
Deserialize(s) ==
    IF ~MatchAttrRep(s) THEN NoRep
    ELSE IF SchemaPart(s) # <<>>
         THEN IF InSchemas(SchemaPart(s))
              THEN [ok |-> TRUE, kind |-> "BoundedAttrRep", schema |-> Str(SchemaPart(s)),
                    attr |-> Str(NamePart(AttrPart(s))), sub |-> Str(SubPart(AttrPart(s))),
                    extension |-> Schemas[StrLower(SchemaPart(s))]]
              ELSE NoRep
         ELSE [ok |-> TRUE, kind |-> "AttrRep", schema |-> "",
               attr |-> Str(NamePart(AttrPart(s))), sub |-> Str(SubPart(AttrPart(s))),
               extension |-> FALSE]

\* AttrRepFactory.validate: the issues it returns
ValidateRep(s) ==
    IF MatchAttrRep(s) /\ (SchemaPart(s) = <<>> \/ InSchemas(SchemaPart(s)))
    THEN NewIssues
    ELSE AddError(NewIssues, 17, FALSE, <<>>).tree

\* SCIMData._normalize on a string: the key, or ValueError
NormalizeStr(k) ==
    IF SchemaURIValid(Chunks(k)) /\ InSchemas(Chunks(k))
    THEN [key |-> SchemaKey(k), raised |-> "none"]
    ELSE LET r == Deserialize(Chunks(k))
         IN IF ~r.ok THEN [key |-> SchemaKey(""), raised |-> "ValueError"]
            ELSE IF r.kind = "BoundedAttrRep"
                 THEN [key |-> BoundedAttrKey(r.schema, r.attr, r.sub, r.extension),
                       raised |-> "none"]
            ELSE [key |-> AttrKey(r.attr, r.sub), raised |-> "none"]

\* SCIMData.get with the key as the caller writes it
GetStr(c, k, default) ==
    IF NormalizeStr(k).raised # "none" THEN Err(NormalizeStr(k).raised)
    ELSE GetKey(c, NormalizeStr(k).key, default)

\* a == b on two values, and SCIMData.__eq__: "True", "False", or the name of
\* the exception the comparison raises
RECURSIVE PyEq(_, _)
RECURSIVE ScimEqFrom(_, _, _)
RECURSIVE ListEqFrom(_, _, _)
RECURSIVE DictEqFrom(_, _, _)
\* SCIMData.__eq__(self, other)
ScimEq(c, o) ==
    IF o.t \notin {"dict", "scim"} THEN "False"
    ELSE LET oc == IF o.t = "dict" THEN Construct(o.kv) ELSE COf(o)
         IN IF Len(c.data) # Len(oc.data) THEN "False"
            ELSE ScimEqFrom(c, oc, 1)
\* the loop of __eq__ from the i-th entry of self on
ScimEqFrom(c, oc, i) ==
    IF i > Len(c.data) THEN "True"
    ELSE LET key == c.data[i][1]
             value == c.data[i][2]
             got == GetStr(oc, key, Missing)
         IN IF got.raised # "none" THEN got.raised
            ELSE IF PyEq(got.val, value) = "True" THEN ScimEqFrom(c, oc, i + 1)
            ELSE IF PyEq(got.val, value) # "False" THEN PyEq(got.val, value)
            ELSE IF ~SchemaURIValid(Chunks(key)) THEN "ValueError"
            ELSE PyEq(GetKey(oc, SchemaKey(key), Missing).val, value)
ListEqFrom(a, b, i) ==
    IF i > Len(a) THEN "True"
    ELSE IF PyEq(a[i], b[i]) = "True" THEN ListEqFrom(a, b, i + 1)
    ELSE PyEq(a[i], b[i])
DictEqFrom(a, b, i) ==
    IF i > Len(a) THEN "True"
    ELSE IF ~OHas(b, a[i][1]) THEN "False"
    ELSE IF PyEq(a[i][2], OGet(b, a[i][1])) = "True" THEN DictEqFrom(a, b, i + 1)
    ELSE PyEq(a[i][2], OGet(b, a[i][1]))
PyEq(a, b) ==
    IF a.t = "scim" THEN ScimEq(COf(a), b)
    ELSE IF b.t = "scim" THEN ScimEq(COf(b), a)
    ELSE IF a.t = "list"
         THEN IF b.t = "list" /\ Len(a.items) = Len(b.items)
              THEN ListEqFrom(a.items, b.items, 1) ELSE "False"
    ELSE IF a.t = "dict"
         THEN IF b.t = "dict" /\ Len(a.kv) = Len(b.kv)
              THEN DictEqFrom(a.kv, b.kv, 1) ELSE "False"
    ELSE IF a = b THEN "True" ELSE "False"

(***************************************************************************)
(* Operations on one container, built from a mapping and then changed by   *)
(* set and pop.                                                            *)
(***************************************************************************)
\* the mappings a container is built from
MapScalar == <<<<"name", Scalar(1)>>>>
MapCaseTwins == <<<<"name", RawDict(<<<<"given", Scalar(1)>>>>)>>, <<"NAME", Scalar(2)>>>>
MapList == <<<<"NAME", List(<<RawDict(<<<<"given", Scalar(1)>>>>), Scalar(2)>>)>>>>
MapExtension ==
    <<<<"urn:ext", RawDict(<<<<"name", RawDict(<<<<"GIVEN", Scalar(1)>>>>)>>>>)>>,
      <<"name", Scalar(2)>>>>
MapNested ==
    <<<<"NAME", List(<<List(<<RawDict(<<<<"given", Scalar(1)>>>>)>>),
                       RawDict(<<<<"GIVEN", RawDict(<<<<"name", List(<<Scalar(1),
                                   RawDict(<<<<"Given", Scalar(2)>>>>)>>)>>>>)>>>>)>>)>>,
      <<"URN:EXT", RawDict(<<<<"name", RawDict(<<<<"GIVEN", Scalar(1)>>>>)>>>>)>>,
      <<"given", Scalar(1)>>>>
MapNestedTwins ==
    <<<<"name", RawDict(<<<<"given", Scalar(1)>>, <<"GIVEN", Scalar(2)>>>>)>>>>
\* a key that reads as a sub-attribute path, and a key that is no attribute name
MapDotted == <<<<"name.given", Scalar(1)>>, <<"name", Scalar(2)>>>>
MapDigit == <<<<"1st", Scalar(1)>>>>
InitMaps ==
    <<<<>>, MapScalar, MapCaseTwins, MapList, MapExtension, MapNested, MapNestedTwins,
      MapDotted, MapDigit>>

\* the paths and values set and pop are called with
Paths ==
    {Path(s, a, b) : s \in {"", "urn:ext", "URN:EXT", "urn:user"},
                     a \in {"name", "NAME"}, b \in {"", "given", "GIVEN"}}
      \cup {Path(s, "", "") : s \in {"urn:ext", "URN:EXT"}}
SetValues ==
    <<Scalar(1),
      RawDict(<<<<"given", Scalar(1)>>>>),
      List(<<Scalar(1)>>),
      Scim(Construct(<<<<"GIVEN", Scalar(2)>>>>))>>

\* the defaults get and pop are called with
Defaults == <<Missing, Scalar(7)>>

\* the last call: value is the value set, or the default of get and pop
COp(name, pre, path, value, result, raised) ==
    [op |-> name, pre |-> pre, path |-> path, value |-> value,
     result |-> result, raised |-> raised]

IssuesIdle ==
    /\ self = NewIssues
    /\ other = NewIssues
    /\ recorded = [self |-> {}, other |-> {}]
    /\ clean = [self |-> TRUE, other |-> TRUE]
    /\ last = Op("init", NewIssues, NewIssues, <<>>, NoneFilter, NoneFilter, "none")
    /\ nops = 0

\* scim = SCIMData(m0)
DataInit ==
    /\ \E i \in DOMAIN InitMaps : m0 = InitMaps[i]
    /\ scim = Construct(m0)
    /\ clast = COp("init", EmptyContainer, Path("", "name", ""), Missing, Missing, "none")
    /\ calls = 0
    /\ IssuesIdle
    /\ ParseIdle
    /\ RegistryIdle
    /\ AttributeIdle

\* scim.set(path, value)
DoSet ==
    \E p \in Paths, i \in DOMAIN SetValues :
      LET v == SetValues[i]
          r == SetKey(scim, Normalize(p), v) IN
        /\ calls < MaxCalls
        /\ scim' = r.c
        /\ clast' = COp("set", scim, p, v, Missing, r.raised)
        /\ calls' = calls + 1
        /\ UNCHANGED m0
        /\ UNCHANGED nonDataVars

\* scim.pop(path, default)
DoPop ==
    \E p \in Paths, i \in DOMAIN Defaults :
      LET r == PopKey(scim, Normalize(p), Defaults[i]) IN
        /\ calls < MaxCalls
        /\ scim' = r.c
        /\ clast' = COp("pop", scim, p, Defaults[i], r.val, r.raised)
        /\ calls' = calls + 1
        /\ UNCHANGED m0
        /\ UNCHANGED nonDataVars

\* scim.get(path, default)
DoGet ==
    \E p \in Paths, i \in DOMAIN Defaults :
      LET r == GetKey(scim, Normalize(p), Defaults[i]) IN
        /\ calls < MaxCalls
        /\ clast' = COp("get", scim, p, Defaults[i], r.val, r.raised)
        /\ calls' = calls + 1
        /\ UNCHANGED <<scim, m0>>
        /\ UNCHANGED nonDataVars

\* the values a container is compared with: the mappings it can be built
\* from, and its own entries as a mapping, in their order and reversed
Reversed(kv) == [i \in DOMAIN kv |-> kv[Len(kv) + 1 - i]]
EqOthers(c) ==
    [i \in DOMAIN InitMaps |-> RawDict(InitMaps[i])]
      \o <<RawDict(ToDict(c)), Scim(Construct(Reversed(ToDict(c)))), Scalar(1)>>

\* scim == other
DoEq ==
    \E i \in DOMAIN EqOthers(scim) :
      LET o == EqOthers(scim)[i]
          r == ScimEq(scim, o) IN
        /\ calls < MaxCalls
        /\ clast' = COp("eq", scim, Path("", "", ""), o,
                        IF r = "True" THEN Scalar(1) ELSE Scalar(0),
                        IF r \in {"True", "False"} THEN "none" ELSE r)
        /\ calls' = calls + 1
        /\ UNCHANGED <<scim, m0>>
        /\ UNCHANGED nonDataVars

DataNext == DoSet \/ DoPop \/ DoGet \/ DoEq

SpecData == DataInit /\ [][DataNext]_vars

(***************************************************************************)
(* Claims about SCIMData                                                   *)
(***************************************************************************)
\* no two stored keys of a container, or of a container nested in it, differ
\* only by case
RECURSIVE AtMostOnePerKey(_)
AtMostOnePerKey(c) ==
    /\ \A i \in DOMAIN c.data, j \in DOMAIN c.data :
         Lower(c.data[i][1]) = Lower(c.data[j][1]) => i = j
    /\ \A i \in DOMAIN c.data :
         LET v == c.data[i][2]
         IN /\ v.t = "scim" => AtMostOnePerKey(COf(v))
            /\ v.t = "list" =>
                 \A j \in DOMAIN v.items :
                   v.items[j].t = "scim" => AtMostOnePerKey(COf(v.items[j]))

\* the path names a top-level key: an attribute of no extension, or a schema URI
IsExtensionPath(p) == p.attr # "" /\ p.schema # "" /\ Schemas[Lower(p.schema)]
IsTopLevelPath(p) == p.sub = "" /\ ~IsExtensionPath(p)
TopLevelKey(p) == IF p.attr = "" THEN p.schema ELSE p.attr

\* the key stored before the call that differs from the written key only by case
CaseTwin(c, key) ==
    IF \E i \in DOMAIN c.data : c.data[i][1] # key /\ Lower(c.data[i][1]) = Lower(key)
    THEN c.data[CHOOSE i \in DOMAIN c.data :
                  c.data[i][1] # key /\ Lower(c.data[i][1]) = Lower(key)][1]
    ELSE ""

\* the call replaced the entry stored under old by one entry under new
ReplacedUnder(old, new) ==
    /\ ~OHas(scim.data, old)
    /\ OHas(scim.data, new)
    /\ OGet(scim.data, new) = clast.value
    /\ Len(scim.data) = Len(clast.pre.data)

\* the call replaced the value stored under old and left the key as it was
ReplacedInPlace(old, new) ==
    /\ ~OHas(scim.data, new)
    /\ OHas(scim.data, old)
    /\ OGet(scim.data, old) = clast.value
    /\ Len(scim.data) = Len(clast.pre.data)

\* C6 as stated: at most one entry per case-insensitive key after any
\* construction, set and pop, and setting a top-level key that differs only in
\* case from a stored key replaces the entry and stores it under the new casing.
C6_OneEntryNewCasing ==
    /\ AtMostOnePerKey(scim)
    /\ (clast.op = "set" /\ IsTopLevelPath(clast.path)
          /\ CaseTwin(clast.pre, TopLevelKey(clast.path)) # "")
         => ReplacedUnder(CaseTwin(clast.pre, TopLevelKey(clast.path)),
                          TopLevelKey(clast.path))

\* C6 amended: at most one entry per case-insensitive key; setting a top-level
\* attribute name that differs only in case from a stored key stores the entry
\* under the new casing, while setting a schema URI that differs only in case
\* from a stored key replaces the value and keeps the stored casing.
C6_OneEntryAttrNewCasing ==
    /\ AtMostOnePerKey(scim)
    /\ (clast.op = "set" /\ IsTopLevelPath(clast.path)
          /\ CaseTwin(clast.pre, TopLevelKey(clast.path)) # "")
         => IF clast.path.attr # ""
            THEN ReplacedUnder(CaseTwin(clast.pre, clast.path.attr), clast.path.attr)
            ELSE ReplacedInPlace(CaseTwin(clast.pre, clast.path.schema), clast.path.schema)

\* C6 witness: a set of NAME on a container that stored name
C6_Witness ==
    /\ clast.op = "set"
    /\ clast.path = Path("", "NAME", "")
    /\ OHas(clast.pre.data, "name")
    /\ OHas(scim.data, "NAME")
    /\ ~OHas(scim.data, "name")

\* the container a path's attribute is looked up in: the container itself, or
\* the extension's namespace container when the path is extension-qualified
\* and the namespace is stored as a container
HasHome(c, p) ==
    IsExtensionPath(p) =>
      LET ns == DictGet(c.idx, Lower(p.schema), "")
      IN ns # "" /\ OHas(c.data, ns) /\ OGet(c.data, ns).t = "scim"
Home(c, p) ==
    IF IsExtensionPath(p) THEN COf(OGet(c.data, c.idx[Lower(p.schema)])) ELSE c

\* C7: set on attr.sub creates attr as a nested container holding sub=value
\* when attr is not stored, and fails with the addressing error, leaving the
\* container as it was, when attr holds a scalar.
C7_SubAttrCreateOrFail ==
    (clast.op = "set" /\ clast.path.sub # "" /\ HasHome(clast.pre, clast.path)) =>
      LET p == clast.path
          before == Home(clast.pre, p)
          after == Home(scim, p)
          stored == DictGet(before.idx, Lower(p.attr), "")
      IN /\ stored = "" =>
              /\ clast.raised = "none"
              /\ HasHome(scim, p)
              /\ after.data = Append(before.data,
                   <<p.attr, Scim([data |-> <<<<p.sub, clast.value>>>>,
                                   idx |-> DictPut(<<>>, Lower(p.sub), p.sub)])>>)
              /\ after.idx = DictPut(before.idx, Lower(p.attr), p.attr)
         /\ (stored # "" /\ OHas(before.data, stored)
               /\ OGet(before.data, stored).t = "scalar") =>
              /\ clast.raised = "KeyError"
              /\ scim = clast.pre

\* C7 witness: a set of NAME.given failed on a container storing a scalar under
\* name, and the scalar is still stored
C7_Witness ==
    /\ clast.op = "set"
    /\ clast.path = Path("", "NAME", "given")
    /\ clast.raised = "KeyError"
    /\ OHas(scim.data, "name")
    /\ OGet(scim.data, "name").t = "scalar"
    /\ OGet(scim.data, "name") # clast.value

\* the parent value a path addresses is absent, a container or a list
ParentOk(c, p) ==
    /\ HasHome(c, p) \/ DictGet(c.idx, Lower(p.schema), "") = ""
    /\ (p.sub # "" /\ HasHome(c, p)) =>
         LET home == Home(c, p)
             stored == DictGet(home.idx, Lower(p.attr), "")
         IN \/ stored = ""
            \/ OHas(home.data, stored) /\ OGet(home.data, stored).t \in {"scim", "list"}

SameButCase(p, q) ==
    /\ Lower(p.schema) = Lower(q.schema)
    /\ Lower(p.attr) = Lower(q.attr)
    /\ Lower(p.sub) = Lower(q.sub)

\* C8: whenever the parent value addressed by the path is absent, a container
\* or a list, set(p, v) completes without raising and get(p), also with p in
\* another letter case, returns v.
C8_SetGetRoundTrip ==
    (clast.op = "set" /\ ParentOk(clast.pre, clast.path)) =>
      /\ clast.raised = "none"
      /\ \A q \in Paths :
           SameButCase(clast.path, q) =>
             GetKey(scim, Normalize(q), Missing) = Val(clast.value)

\* no two keys at one level of a generic tree differ only by case
RECURSIVE NoCaseTwins(_)
RECURSIVE NoCaseTwinsIn(_)
NoCaseTwinsIn(v) ==
    /\ v.t = "dict" => NoCaseTwins(v.kv)
    /\ v.t = "list" => \A j \in DOMAIN v.items : NoCaseTwinsIn(v.items[j])
NoCaseTwins(kv) ==
    /\ \A i \in DOMAIN kv, j \in DOMAIN kv : Lower(kv[i][1]) = Lower(kv[j][1]) => i = j
    /\ \A i \in DOMAIN kv : NoCaseTwinsIn(kv[i][2])

\* a generic tree holds maps, lists and scalars only
RECURSIVE IsGeneric(_)
RECURSIVE IsGenericValue(_)
IsGenericValue(v) ==
    /\ v.t \in {"scalar", "list", "dict"}
    /\ v.t = "dict" => IsGeneric(v.kv)
    /\ v.t = "list" => \A j \in DOMAIN v.items : IsGenericValue(v.items[j])
IsGeneric(kv) == \A i \in DOMAIN kv : IsGenericValue(kv[i][2])

\* C9: for a generic tree m with no keys differing only by case at one level,
\* SCIMData(m).to_dict() equals m, keys in their casing and order, and doing
\* it again gives the same tree; checked for the mapping the container was
\* built from and for the tree the container converts to after set and pop.
C9_ToDictRoundTrip ==
    /\ NoCaseTwins(m0) =>
         /\ ToDict(Construct(m0)) = m0
         /\ ToDict(Construct(ToDict(Construct(m0)))) = ToDict(Construct(m0))
    /\ LET m == ToDict(scim)
       IN (IsGeneric(m) /\ NoCaseTwins(m)) =>
            /\ ToDict(Construct(m)) = m
            /\ ToDict(Construct(ToDict(Construct(m)))) = ToDict(Construct(m))

\* C9 witness: the container built from the nested mixed-case mapping
C9_Witness ==
    /\ m0 = MapNested
    /\ NoCaseTwins(m0)
    /\ calls = 0
    /\ scim = Construct(m0)
    /\ ToDict(scim) = m0

\* every mapping held by a container is a container
RECURSIVE Normalized(_)
Normalized(c) ==
    \A i \in DOMAIN c.data :
      LET v == c.data[i][2]
      IN /\ v.t # "dict"
         /\ v.t = "scim" => Normalized(COf(v))
         /\ v.t = "list" =>
              \A j \in DOMAIN v.items :
                /\ v.items[j].t # "dict"
                /\ v.items[j].t = "scim" => Normalized(COf(v.items[j]))

\* C10: after construction and any set calls every mapping held by a container
\* is a container, so that a value written with set(attr, {sub: v}) is read
\* back with get(attr.sub).
C10_StoredMappingsAreContainers ==
    /\ Normalized(scim)
    /\ (clast.op = "set" /\ clast.raised = "none" /\ clast.path.sub = ""
          /\ clast.path.attr # "" /\ clast.value.t = "dict") =>
         \A i \in DOMAIN clast.value.kv :
           GetKey(scim, Normalize(Path(clast.path.schema, clast.path.attr,
                                       clast.value.kv[i][1])), Missing)
             = Val(clast.value.kv[i][2])

\* the key of kv that equals k when case is ignored, "" when there is none
FindKey(kv, k) ==
    IF \E i \in DOMAIN kv : Lower(kv[i][1]) = Lower(k)
    THEN kv[CHOOSE i \in DOMAIN kv : Lower(kv[i][1]) = Lower(k)][1]
    ELSE ""
\* the value stored in kv under k when case is ignored, d when there is none
Stored(kv, k, d) == IF FindKey(kv, k) = "" THEN d ELSE OGet(kv, FindKey(kv, k))

\* what get(attr[.sub], d) is to return from the entries kv of a container
StoredAt(kv, attr, sub, d) ==
    LET parent == Stored(kv, attr, Missing)
    IN IF sub = "" \/ FindKey(kv, attr) = "" THEN Stored(kv, attr, d)
       ELSE IF parent.t = "scim" THEN Stored(parent.kv, sub, d)
       ELSE IF parent.t = "list"
            THEN List([i \in DOMAIN parent.items |->
                   IF parent.items[i].t = "scim"
                   THEN Stored(parent.items[i].kv, sub, d) ELSE d])
       ELSE d

\* the path addresses through containers, lists and scalars only: no parent
\* on the way is a plain mapping, and an extension namespace is a container
Addressable(c, p) ==
    /\ IsExtensionPath(p) => Stored(c.data, p.schema, Scim(EmptyContainer)).t = "scim"
    /\ p.sub # "" =>
         LET kv == IF IsExtensionPath(p)
                   THEN Stored(c.data, p.schema, Scim(EmptyContainer)).kv ELSE c.data
         IN Stored(kv, p.attr, Missing).t # "dict"

\* what get(p, d) is to return
Resolve(c, p, d) ==
    IF p.attr = "" THEN Stored(c.data, p.schema, d)
    ELSE IF IsExtensionPath(p)
         THEN IF FindKey(c.data, p.schema) = "" THEN d
              ELSE StoredAt(Stored(c.data, p.schema, Missing).kv, p.attr, p.sub, d)
    ELSE StoredAt(c.data, p.attr, p.sub, d)

\* C11: get(path, default) returns the default whenever no value is stored at
\* the path (absent attribute, container parent without the sub-attribute,
\* scalar parent, absent extension namespace or attribute inside it), and for
\* a list parent a parallel list with the default at every element that does
\* not provide the sub-attribute.
C11_GetReturnsDefault ==
    (clast.op = "get" /\ Addressable(clast.pre, clast.path)) =>
      /\ clast.raised = "none"
      /\ clast.result = Resolve(clast.pre, clast.path, clast.value)

\* the entries of kv stored under other keys than the schema URI
Outside(kv, schema) == SelectSeq(kv, LAMBDA e : Lower(e[1]) # Lower(schema))
\* the index entries of other keys than the schema URI
IndexOutside(idx, schema) == [k \in DOMAIN idx \ {Lower(schema)} |-> idx[k]]

NothingStored(v) ==
    \/ v = Missing
    \/ v.t = "list" /\ \A i \in DOMAIN v.items : v.items[i] = Missing

\* C13: pop(path, default) returns exactly what get(path, default) returns in
\* the state it is called in, and raises exactly when get raises; afterwards get(path) yields Missing, or a list of
\* Missing for a list parent; and a pop through an extension-qualified path
\* leaves the namespace container stored.
C13_PopFollowsGet ==
    clast.op = "pop" =>
      /\ LET got == GetKey(clast.pre, Normalize(clast.path), clast.value)
         IN /\ (clast.raised = "none") <=> (got.raised = "none")
            /\ clast.raised = "none" => clast.result = got.val
      /\ clast.raised = "none" =>
           /\ GetKey(scim, Normalize(clast.path), Missing).raised = "none"
           /\ NothingStored(GetKey(scim, Normalize(clast.path), Missing).val)
      /\ (IsExtensionPath(clast.path) /\ FindKey(clast.pre.data, clast.path.schema) # "") =>
           /\ FindKey(scim.data, clast.path.schema) = FindKey(clast.pre.data, clast.path.schema)
           /\ Stored(scim.data, clast.path.schema, Missing).t
                = Stored(clast.pre.data, clast.path.schema, Missing).t

\* two values are equal: scalars are the same, lists are equal element by
\* element, mappings and containers have as many entries and every entry of
\* the one has an equal value in the other under the key, case ignored
RECURSIVE SameValue(_, _)
SameEntries(kv, kw) ==
    /\ Len(kv) = Len(kw)
    /\ \A i \in DOMAIN kv :
         \E j \in DOMAIN kw : Lower(kv[i][1]) = Lower(kw[j][1]) /\ SameValue(kv[i][2], kw[j][2])
SameValue(v, w) ==
    IF v.t \in {"dict", "scim"} THEN w.t \in {"dict", "scim"} /\ SameEntries(v.kv, w.kv)
    ELSE IF v.t = "list"
         THEN /\ w.t = "list"
              /\ Len(v.items) = Len(w.items)
              /\ \A i \in DOMAIN v.items : SameValue(v.items[i], w.items[i])
    ELSE v = w

\* C14: a comparison returns a boolean and never raises, and it returns True
\* only if the two sides have the same number of entries and every entry of
\* the left side has an equal value on the right under the same key, case
\* ignored; so a difference in one value makes the sides unequal.  A mapping
\* counts with the entries of the container it is converted to.
C14_EqualOnlyIfSameEntries ==
    clast.op = "eq" =>
      /\ clast.raised = "none"
      /\ clast.result = Scalar(1) => SameValue(Scim(clast.pre), ConstructValue(clast.value))

(***************************************************************************)
(* The registry (registry.py): the process-wide tables of resource         *)
(* schemas, schemas and operators.  A table is a function from the key to  *)
(* the registered object.  schemas is keyed by SchemaURI, whose hash and   *)
(* equality ignore case: its key is written lower-cased.                   *)
(***************************************************************************)
\* number of registrations in one run
MaxRegs == 3

\* the names and objects handed to the registry
ResourceNames == {"User", "user", "Group"}
SchemaURIs == {"urn:ext", "URN:EXT", "urn:user"}
UnaryNames == {"pr", "PR"}
BinaryNames == {"eq", "EQ", "ne"}
Objects == {"first", "second"}

Registered(table) == [table |-> table, raised |-> "none"]
AlreadyRegistered(table) == [table |-> table, raised |-> "RuntimeError"]

\* register_resource_schema
RegisterResourceSchema(table, name, schema) ==
    IF name \in DOMAIN table THEN AlreadyRegistered(table)
    ELSE Registered(DictPut(table, name, schema))

\* register_schema
RegisterSchema(table, schema_uri, schema) ==
    Registered(DictPut(table, Lower(schema_uri), schema))

\* an operator key that keeps the case of the operator name
OperatorKeyExact(name) == name
\* operator.op().lower()
OperatorKey(name) == Lower(name)

\* register_unary_operator
RegisterUnaryOperator(table, name, operator) ==
    IF OperatorKey(name) \in DOMAIN table THEN AlreadyRegistered(table)
    ELSE Registered(DictPut(table, OperatorKey(name), operator))

\* register_binary_operator
RegisterBinaryOperator(table, name, operator) ==
    IF OperatorKey(name) \in DOMAIN table THEN AlreadyRegistered(table)
    ELSE Registered(DictPut(table, OperatorKey(name), operator))

\* the four tables
Tables ==
    [resources |-> resources, schemas |-> schemas,
     unary_operators |-> unary_operators, binary_operators |-> binary_operators]
ROp(name, key, object, raised) ==
    [op |-> name, key |-> key, object |-> object, pre |-> Tables, raised |-> raised]

\* no container is in use
DataIdle ==
    /\ scim = EmptyContainer
    /\ m0 = <<>>
    /\ clast = [op |-> "init"]
    /\ calls = 0

RegistryInit ==
    /\ RegistryIdle
    /\ IssuesIdle
    /\ DataIdle
    /\ ParseIdle
    /\ AttributeIdle

DoRegisterResourceSchema ==
    \E name \in ResourceNames, o \in Objects :
      LET r == RegisterResourceSchema(resources, name, o) IN
        /\ regs < MaxRegs
        /\ resources' = r.table
        /\ rlast' = ROp("register_resource_schema", name, o, r.raised)
        /\ regs' = regs + 1
        /\ UNCHANGED <<schemas, unary_operators, binary_operators, firstSchema>>
        /\ UNCHANGED nonRegistryVars

\* firstSchema: what the first successful registration of each URI gave
DoRegisterSchema ==
    \E uri \in SchemaURIs, o \in Objects :
      LET r == RegisterSchema(schemas, uri, o) IN
        /\ regs < MaxRegs
        /\ schemas' = r.table
        /\ firstSchema' = IF r.raised = "none" /\ Lower(uri) \notin DOMAIN firstSchema
                          THEN DictPut(firstSchema, Lower(uri), o) ELSE firstSchema
        /\ rlast' = ROp("register_schema", uri, o, r.raised)
        /\ regs' = regs + 1
        /\ UNCHANGED <<resources, unary_operators, binary_operators>>
        /\ UNCHANGED nonRegistryVars

DoRegisterUnaryOperator ==
    \E name \in UnaryNames, o \in Objects :
      LET r == RegisterUnaryOperator(unary_operators, name, o) IN
        /\ regs < MaxRegs
        /\ unary_operators' = r.table
        /\ rlast' = ROp("register_unary_operator", name, o, r.raised)
        /\ regs' = regs + 1
        /\ UNCHANGED <<resources, schemas, binary_operators, firstSchema>>
        /\ UNCHANGED nonRegistryVars

DoRegisterBinaryOperator ==
    \E name \in BinaryNames, o \in Objects :
      LET r == RegisterBinaryOperator(binary_operators, name, o) IN
        /\ regs < MaxRegs
        /\ binary_operators' = r.table
        /\ rlast' = ROp("register_binary_operator", name, o, r.raised)
        /\ regs' = regs + 1
        /\ UNCHANGED <<resources, schemas, unary_operators, firstSchema>>
        /\ UNCHANGED nonRegistryVars

RegistryNext ==
    \/ DoRegisterResourceSchema
    \/ DoRegisterSchema
    \/ DoRegisterUnaryOperator
    \/ DoRegisterBinaryOperator

SpecRegistry == RegistryInit /\ [][RegistryNext]_vars

(***************************************************************************)
(* Claims about the registry                                               *)
(***************************************************************************)
\* C15: register_schema fails when the URI is already registered, and the
\* table keeps the entry of the first registration of each URI.
C15_SchemaRegisteredOnce ==
    /\ (rlast.op = "register_schema" /\ Lower(rlast.key) \in DOMAIN rlast.pre.schemas)
         => rlast.raised # "none"
    /\ \A u \in DOMAIN schemas : schemas[u] = firstSchema[u]

\* the table a registration goes to, and the key it is stored under: the
\* resource name as written, the operator name with case ignored
TableName(call) ==
    IF call.op = "register_resource_schema" THEN "resources"
    ELSE IF call.op = "register_unary_operator" THEN "unary_operators"
    ELSE "binary_operators"
TableKey(call) == IF call.op = "register_resource_schema" THEN call.key ELSE Lower(call.key)

\* C16: register_resource_schema, register_unary_operator and
\* register_binary_operator raise RuntimeError when the resource name, or the
\* operator name with case ignored, is already registered, and leave every
\* table unchanged; a first registration adds exactly one entry.
C16_RegisterOnceOrRaise ==
    rlast.op \in {"register_resource_schema", "register_unary_operator",
                  "register_binary_operator"} =>
      IF TableKey(rlast) \in DOMAIN rlast.pre[TableName(rlast)]
      THEN /\ rlast.raised = "RuntimeError"
           /\ Tables = rlast.pre
      ELSE /\ rlast.raised = "none"
           /\ Tables = [rlast.pre EXCEPT ![TableName(rlast)] =
                          DictPut(@, TableKey(rlast), rlast.object)]

\* C16 witness: the unary operator PR was refused because pr is registered
C16_Witness ==
    /\ rlast.op = "register_unary_operator"
    /\ rlast.key = "PR"
    /\ rlast.raised = "RuntimeError"
    /\ DOMAIN unary_operators = {"pr"}
    /\ unary_operators = rlast.pre.unary_operators

(***************************************************************************)
(* Attribute names and attribute representations built from strings        *)
(* (container.py: AttrName, AttrRepFactory).                               *)
(***************************************************************************)
\* number of chunks of a string after its schema prefix
MaxChunks == 3

\* the chunks the strings are written with
Alphabet == {"a", "B", "b", "1", "_", "$", "-", ".", ":", " ", "é", "ref", "Σ", "σ"}
\* the schema prefixes the strings start with: none, a registered extension in
\* two casings, the registered base schema, a schema that is not registered
Prefixes ==
    {<<>>, <<"urn", ":", "ext", ":">>, <<"URN", ":", "EXT", ":">>,
     <<"urn", ":", "user", ":">>, <<"urn", ":", "nope", ":">>}
Bodies == UNION {[1..n -> Alphabet] : n \in 0..MaxChunks}
Texts == {p \o b : p \in Prefixes, b \in Bodies}

\* the capital and the small letter of a chunk
Upper(ch) ==
    CASE ch = "b" -> "B"
      [] ch = "σ" -> "Σ"
      [] ch = "ς" -> "Σ"
      [] OTHER -> ch
Small(ch) == IF ch = "Σ" THEN "σ" ELSE Lower(ch)
\* the ways to change the letter case of the chunks of s
Casings(s) == [DOMAIN s -> {"same", "upper", "small"}]
Recase(s, m) ==
    [i \in DOMAIN s |->
       IF m[i] = "upper" THEN Upper(s[i])
       ELSE IF m[i] = "small" THEN Small(s[i])
       ELSE s[i]]

POp(name, ok, raised) ==
    [op |-> name, ok |-> ok, raised |-> raised, variant |-> <<>>, eq |-> FALSE,
     hash |-> FALSE, result |-> NoRep, issues |-> NewIssues]

ParseInit ==
    /\ text \in Texts
    /\ rep = [op |-> "init"]
    /\ IssuesIdle
    /\ DataIdle
    /\ RegistryIdle
    /\ AttributeIdle

\* AttrName(text), and for a valid name AttrName(variant) with the letter case
\* of some chunks changed, text == variant and hash(text) == hash(variant)
DoAttrName ==
    LET n == AttrNameNew(text)
    IN /\ IF n.ok
          THEN \E m \in Casings(text) :
                 LET variant == Recase(text, m)
                 IN /\ AttrNameNew(variant).ok
                    /\ rep' = [POp("AttrName", TRUE, "none") EXCEPT
                                 !.variant = variant,
                                 !.eq = AttrNameEq(text, variant),
                                 !.hash = (AttrNameHash(text) = AttrNameHash(variant))]
          ELSE rep' = POp("AttrName", FALSE, n.raised)
       /\ UNCHANGED text
       /\ UNCHANGED nonParseVars

\* AttrRepFactory.deserialize(text)
DoDeserialize ==
    LET r == Deserialize(text)
    IN /\ rep' = [POp("deserialize", r.ok, IF r.ok THEN "none" ELSE "ValueError") EXCEPT
                    !.result = r]
       /\ UNCHANGED text
       /\ UNCHANGED nonParseVars

\* AttrRepFactory.validate(text)
DoValidateRep ==
    /\ rep' = [POp("validate", TRUE, "none") EXCEPT !.issues = ValidateRep(text)]
    /\ UNCHANGED text
    /\ UNCHANGED nonParseVars

ParseNext ==
    \/ DoAttrName
    \/ DoDeserialize
    \/ DoValidateRep

SpecParse == ParseInit /\ [][ParseNext]_vars

(***************************************************************************)
(* Claims about attribute names and representations                        *)
(***************************************************************************)
\* the attribute-name grammar, read off the string: an ASCII letter followed
\* by letters, digits, underscores, dollars and hyphens, or the literal $ref
InGrammar(s) ==
    \/ s = <<"$", "ref">>
    \/ /\ s # <<>>
       /\ s[1] \in AsciiLetters
       /\ \A i \in 2..Len(s) : s[i] \notin {".", ":", " "}

\* C17: AttrName(s) succeeds for every string of the attribute-name grammar
\* and fails for every other string; two names built from strings that
\* differ only in letter case compare equal and have the same hash.
C17_AttrNameIgnoresCase ==
    rep.op = "AttrName" =>
      /\ rep.ok <=> InGrammar(text)
      /\ ~rep.ok => rep.raised = "ValueError"
      /\ (rep.ok /\ rep.variant # <<>>) => (rep.eq /\ rep.hash)

\* the strings of the form attr[.subAttr], with the two names
BareForm(s, attr, sub) ==
    /\ InGrammar(attr)
    /\ sub # <<>> => InGrammar(sub)
    /\ s = IF sub = <<>> THEN attr ELSE attr \o <<".">> \o sub
\* the strings of the form schema:attr[.subAttr], split after chunk i
IsSchema(s) ==
    /\ s # <<>>
    /\ s[1] # ":" /\ s[Len(s)] # ":"
    /\ \A i \in DOMAIN s : s[i] \notin {"$", " "}
    /\ \A i \in 1..(Len(s) - 1) : ~(s[i] = ":" /\ s[i + 1] = ":")
Halves(s) == {<<SubSeq(s, 1, i), SubSeq(s, i + 1, Len(s))>> : i \in 0..Len(s)}
NamesOf(s) == {h \in Halves(s) : h[2] = <<>> \/ (h[1] # <<>> /\ h[1][Len(h[1])] = ".")}
AttrOf(h) == IF h[2] = <<>> THEN h[1] ELSE SubSeq(h[1], 1, Len(h[1]) - 1)
IsBare(s) == \E h \in NamesOf(s) : h[1] # <<>> /\ BareForm(s, AttrOf(h), h[2])
PrefixedAt(s, i) ==
    /\ s[i] = ":"
    /\ IsSchema(SubSeq(s, 1, i - 1))
    /\ IsBare(SubSeq(s, i + 1, Len(s)))
IsRegistered(schema) == StrLower(schema) \in {"urn:ext", "urn:user"}

\* C18: deserialize accepts exactly the strings [schema:]attr[.subAttr]:
\* without a prefix it returns a bare AttrRep, with a registered prefix a
\* BoundedAttrRep bound to that schema, and it fails for an unregistered
\* prefix and for every other string; validate reports no issue exactly for
\* the strings deserialize accepts.
C18_DeserializeAcceptsPaths ==
    /\ rep.op = "deserialize" =>
         /\ IsBare(text) =>
              /\ rep.ok /\ rep.result.kind = "AttrRep"
              /\ \E h \in NamesOf(text) :
                   /\ rep.result.attr = Str(AttrOf(h))
                   /\ rep.result.sub = Str(h[2])
         /\ \A i \in DOMAIN text :
              PrefixedAt(text, i) =>
                IF IsRegistered(SubSeq(text, 1, i - 1))
                THEN /\ rep.ok /\ rep.result.kind = "BoundedAttrRep"
                     /\ rep.result.schema = Str(SubSeq(text, 1, i - 1))
                     /\ \E h \in NamesOf(SubSeq(text, i + 1, Len(text))) :
                          /\ rep.result.attr = Str(AttrOf(h))
                          /\ rep.result.sub = Str(h[2])
                ELSE ~rep.ok /\ rep.raised = "ValueError"
         /\ (~IsBare(text) /\ \A i \in DOMAIN text : ~PrefixedAt(text, i)) =>
              (~rep.ok /\ rep.raised = "ValueError" /\ rep.result = NoRep)
    /\ rep.op = "validate" =>
         /\ (rep.issues = NewIssues) <=> Deserialize(text).ok
         /\ ~Deserialize(text).ok =>
              (rep.issues.errors = (<<>> :> <<17>>) /\ ~CanProceed(rep.issues, <<>>))

\* C18 witness: URN:EXT:a.b was deserialized to a bounded representation
C18_Witness ==
    /\ rep.op = "deserialize"
    /\ text = <<"URN", ":", "EXT", ":", "a", ".", "b">>
    /\ rep.ok
    /\ rep.result.kind = "BoundedAttrRep"
    /\ rep.result.schema = "URN:EXT"
    /\ rep.result.attr = "a"
    /\ rep.result.sub = "b"

(***************************************************************************)
(* Attribute validation (data/attributes.py): Attribute.validate_type,     *)
(* _validate_type, validate and _validate, on the ValidationIssues tree    *)
(* modelled above.  A python value is written with the name of its type;   *)
(* a list holds its items.  Locations of list items are 0-based.           *)
(***************************************************************************)
\* number of items of a list value
MaxItems == 3

Py(t, v) == [t |-> t, v |-> v, items |-> <<>>]
PyList(items) == [t |-> "list", v |-> "", items |-> items]
Invalid == Py("InvalidType", "Invalid")
None == Py("NoneType", "None")
PyMissing == Py("MissingType", "Missing")
\* a complex value with its sub-attributes type, value and primary
PyItem(type, val, primary) == [t |-> "SCIMData", v |-> "", items |-> <<type, val, primary>>]
\* item.get(name)
Field(x, name) ==
    CASE Lower(name) = "type" -> x.items[1]
      [] Lower(name) = "value" -> x.items[2]
      [] Lower(name) = "primary" -> x.items[3]
      [] OTHER -> PyMissing
\* bool(x)
Truthy(x) == x \notin {PyMissing, Invalid, None, Py("str", ""), Py("bool", "False")}

\* the items of list values, and the values handed to an attribute
PyScalars ==
    {Py("bool", "True"), Py("bool", "False"), Py("int", "1"), Py("int", "5"),
     Py("float", "1.5"), Py("str", "yes"), Invalid}
PyLists == UNION {{PyList(s) : s \in [1..n -> PyScalars]} : n \in 0..MaxItems}
PyValues == PyScalars \cup PyLists \cup {None, Py("dict", "{}")}
\* number of items of a list of complex values
MaxComplexItems == 4
ComplexItems ==
    {PyItem(type, val, primary) :
       type \in {Py("str", "work"), Py("str", "")},
       val \in {Py("str", "x"), Py("str", "y")},
       primary \in {PyMissing, Py("bool", "True")}}
ComplexLists == UNION {{PyList(s) : s \in [1..n -> ComplexItems]} : n \in 0..MaxComplexItems}

\* the classes a value is an instance of: bool is a subclass of int
Classes(x) == IF x.t = "bool" THEN {"bool", "int"} ELSE {x.t}
IsInstance(x, types) == Classes(x) \cap types # {}

\* BASE_TYPES of the attribute classes
BASE_TYPES(kind) ==
    CASE kind = "Boolean" -> {"bool"}
      [] kind = "Integer" -> {"int"}
      [] kind = "Decimal" -> {"float", "int"}
      [] kind = "String" -> {"str"}
      [] kind = "Complex" -> {"SCIMData", "dict"}
      [] kind = "Unknown" -> {}

\* python == on the items: numbers compare by value (True == 1), in tenths
Tenths(x) ==
    CASE x.v = "True" -> 10
      [] x.v = "False" -> 0
      [] x.v = "1" -> 10
      [] x.v = "5" -> 50
      [] x.v = "1.5" -> 15
IsNumber(x) == x.t \in {"bool", "int", "float"}
ItemEq(x, y) == IF IsNumber(x) /\ IsNumber(y) THEN Tenths(x) = Tenths(y) ELSE x = y

\* the attributes: canonical_values is None (has_canonical = FALSE) or a
\* list; a validator is named by what it returns
CanonicalOf(kind) ==
    CASE kind = "Boolean" -> <<Py("bool", "True")>>
      [] kind = "Integer" -> <<Py("int", "1")>>
      [] kind = "Decimal" -> <<Py("int", "1")>>
      [] kind = "String" -> <<Py("str", "no")>>
ValidatorLists == {<<>>, <<"warns">>, <<"fails", "warns">>}
Attributes ==
    {[kind |-> k, name |-> "active", multi_valued |-> m, has_canonical |-> c,
      canonical_values |-> IF c THEN CanonicalOf(k) ELSE <<>>,
      restrict |-> r, validators |-> vs, sub_attributes |-> <<>>] :
       k \in {"Boolean", "Integer", "Decimal", "String"}, m \in BOOLEAN,
       c \in BOOLEAN, r \in BOOLEAN, vs \in ValidatorLists}

\* Attribute.__init__ with the defaults of its keyword arguments
AttributeNew(kind, name) ==
    [kind |-> kind, name |-> name, multi_valued |-> FALSE, has_canonical |-> FALSE,
     canonical_values |-> <<>>, restrict |-> FALSE, validators |-> <<>>,
     sub_attributes |-> <<>>]
\* getattr(self.attrs, name, None) is an attribute
HasSubAttribute(subs, name) == \E i \in DOMAIN subs : Lower(subs[i].name) = Lower(name)
\* Complex.__init__: a multi-valued complex attribute gets the validator of
\* the primary value and the validator of the type-value pairs
ComplexNew(name, multi_valued, subs, validators) ==
    [AttributeNew("Complex", name) EXCEPT
       !.multi_valued = multi_valued,
       !.sub_attributes = subs,
       !.validators =
          validators
          \o (IF multi_valued /\ HasSubAttribute(subs, "primary")
                 /\ \A i \in DOMAIN validators : validators[i] # "validate_single_primary_value"
              THEN <<"validate_single_primary_value">> ELSE <<>>)
          \o (IF multi_valued /\ HasSubAttribute(subs, "type") /\ HasSubAttribute(subs, "value")
                 /\ \A i \in DOMAIN validators : validators[i] # "validate_type_value_pairs"
              THEN <<"validate_type_value_pairs">> ELSE <<>>)]
\* the sub-attributes a complex attribute is declared with
SubAttributeLists ==
    {<<AttributeNew("Unknown", "value"), AttributeNew("String", "type"),
       AttributeNew("Boolean", "primary")>>,
     <<AttributeNew("String", "type"), AttributeNew("Unknown", "value")>>,
     <<AttributeNew("Unknown", "value"), AttributeNew("Boolean", "primary")>>}
ComplexAttributes ==
    {ComplexNew("emails", TRUE, subs, vs) :
       subs \in SubAttributeLists, vs \in {<<>>, <<"warns">>}}

\* validate_single_primary_value
ValidateSinglePrimaryValue(val) ==
    IF Cardinality({i \in DOMAIN val.items :
                     val.items[i] # Invalid
                       /\ Field(val.items[i], "primary") = Py("bool", "True")}) > 1
    THEN AddError(NewIssues, 15, TRUE, <<>>).tree
    ELSE NewIssues

\* validate_type_value_pairs: the pairs counted more than once, one warning
\* for each
RepeatedPairs(val) ==
    LET counted == {i \in DOMAIN val.items :
                      /\ val.items[i] # Invalid
                      /\ Truthy(Field(val.items[i], "type"))
                      /\ Truthy(Field(val.items[i], "value"))}
        pair(i) == <<Field(val.items[i], "type"), Field(val.items[i], "value")>>
    IN {pair(i) : i \in {j \in counted : \E k \in counted : k # j /\ pair(k) = pair(j)}}
RECURSIVE AddWarnings(_, _, _)
AddWarnings(t, c, n) == IF n = 0 THEN t ELSE AddWarnings(AddWarning(t, c, <<>>).tree, c, n - 1)
ValidateTypeValuePairs(val) == AddWarnings(NewIssues, 2, Cardinality(RepeatedPairs(val)))

\* what a validator returns
RunValidator(name, val) ==
    CASE name = "warns" -> AddWarning(NewIssues, 1, <<>>).tree
      [] name = "fails" -> AddError(NewIssues, 4, FALSE, <<>>).tree
      [] name = "validate_single_primary_value" -> ValidateSinglePrimaryValue(val)
      [] name = "validate_type_value_pairs" -> ValidateTypeValuePairs(val)

\* Attribute._is_canonical, with the override of AttributeWithCaseExact
\* (case_exact = False)
IsCanonical(a, x) ==
    \/ ~a.has_canonical
    \/ \E i \in DOMAIN a.canonical_values : ItemEq(x, a.canonical_values[i])
    \/ /\ a.kind = "String"
       /\ \E i \in DOMAIN a.canonical_values : Lower(x.v) = Lower(a.canonical_values[i].v)

\* Attribute._validate_type
ValidateTypeItem(a, x) ==
    IF a.kind # "Unknown" /\ ~IsInstance(x, BASE_TYPES(a.kind))
    THEN AddError(NewIssues, 2, FALSE, <<>>).tree
    ELSE NewIssues

\* an item that is never replaced
KeepItem(issues, x) == x
\* if not issues_.can_proceed(): value[i] = Invalid
MarkItem(issues, x) == IF ~CanProceed(issues, <<>>) THEN Invalid ELSE x

\* the loop of validate_type over the items from item i on
RECURSIVE ValidateTypeFrom(_, _, _, _)
ValidateTypeFrom(a, items, i, issues) ==
    IF i > Len(items) THEN [issues |-> issues, items |-> items]
    ELSE LET issues_ == ValidateTypeItem(a, items[i])
         IN ValidateTypeFrom(a, [items EXCEPT ![i] = MarkItem(issues_, items[i])], i + 1,
                             Merge(issues, issues_, <<i - 1>>))

\* Attribute.validate_type: the issues and the value afterwards
ValidateType(a, val) ==
    IF a.multi_valued
    THEN IF ~IsInstance(val, {"list"})
         THEN [issues |-> AddError(NewIssues, 2, FALSE, <<>>).tree, value |-> val]
         ELSE LET r == ValidateTypeFrom(a, val.items, 1, NewIssues)
              IN [issues |-> r.issues, value |-> PyList(r.items)]
    ELSE [issues |-> Merge(NewIssues, ValidateTypeItem(a, val), <<>>), value |-> val]

RECURSIVE Validate(_, _)
\* Complex._validate: the loop over the sub-attributes from sub-attribute i on
RECURSIVE ValidateSubAttributesFrom(_, _, _, _)
ValidateSubAttributesFrom(a, x, i, issues) ==
    IF i > Len(a.sub_attributes) THEN issues
    ELSE IF Field(x, a.sub_attributes[i].name) = PyMissing
         THEN ValidateSubAttributesFrom(a, x, i + 1, issues)
         ELSE ValidateSubAttributesFrom(
                a, x, i + 1,
                Merge(issues,
                      Validate(a.sub_attributes[i], Field(x, a.sub_attributes[i].name)).issues,
                      <<a.sub_attributes[i].name>>))

\* Attribute._validate: the canonical values; Complex._validate: the
\* sub-attributes
ValidateItem(a, x) ==
    IF a.kind = "Complex" THEN ValidateSubAttributesFrom(a, x, 1, NewIssues)
    ELSE IF ~IsCanonical(a, x)
    THEN IF a.restrict
         THEN AddError(NewIssues, 9, FALSE, <<>>).tree
         ELSE AddWarning(NewIssues, 1, <<>>).tree
    ELSE NewIssues

\* the loop of validate over the items from item i on; reached: the
\* locations _validate was called for
RECURSIVE ValidateFrom(_, _, _, _, _)
ValidateFrom(a, items, i, issues, reached) ==
    IF i > Len(items) THEN [issues |-> issues, items |-> items, reached |-> reached]
    ELSE IF items[i] = Invalid
         THEN ValidateFrom(a, items, i + 1, issues, reached)
         ELSE LET issues_ == ValidateItem(a, items[i])
              IN ValidateFrom(a, [items EXCEPT ![i] = MarkItem(issues_, items[i])], i + 1,
                              Merge(issues, issues_, <<i - 1>>), reached \cup {<<i - 1>>})

\* the loop over the validators from validator i on; ran: how many were called
RECURSIVE RunValidatorsFrom(_, _, _, _, _)
RunValidatorsFrom(a, val, i, issues, ran) ==
    IF i > Len(a.validators) \/ ~CanProceed(issues, <<>>)
    THEN [issues |-> issues, ran |-> ran]
    ELSE RunValidatorsFrom(a, val, i + 1,
                           Merge(issues, RunValidator(a.validators[i], val), <<>>), ran + 1)

\* a validate that goes on after any type failure
NeverStops(issues) == FALSE
\* if not issues.can_proceed(): return issues
StopsAfterType(issues) == ~CanProceed(issues, <<>>)

Validated(issues, val, reached, ran) ==
    [issues |-> issues, value |-> val, reached |-> reached, ran |-> ran]

\* Attribute.validate: the issues, the value afterwards, the locations the
\* value-level check was called for and the number of validators called
Validate(a, val) ==
    IF val = None THEN Validated(NewIssues, val, {}, 0)
    ELSE LET t == ValidateType(a, val)
             typed == Merge(NewIssues, t.issues, <<>>)
         IN IF StopsAfterType(typed) THEN Validated(typed, t.value, {}, 0)
            ELSE LET r == IF a.multi_valued
                          THEN ValidateFrom(a, t.value.items, 1, typed, {})
                          ELSE [issues |-> Merge(typed, ValidateItem(a, t.value), <<>>),
                                items |-> <<>>, reached |-> {<<>>}]
                     checked == IF a.multi_valued THEN PyList(r.items) ELSE t.value
                     v == RunValidatorsFrom(a, checked, 1, r.issues, 0)
                 IN Validated(v.issues, checked, r.reached, v.ran)

\* the walk over a resource merges the issues of an attribute at its name
ResourceWalk(name, issues) == Merge(NewIssues, issues, <<name>>)

AOp(name, r) ==
    [op |-> name, pre |-> subject, issues |-> r.issues, reached |-> r.reached,
     ran |-> r.ran, walk |-> ResourceWalk(attribute.name, r.issues)]

AttributesInit ==
    /\ \/ attribute \in Attributes /\ subject \in PyValues
       \/ attribute \in ComplexAttributes /\ subject \in ComplexLists
    /\ outcome = [op |-> "init"]
    /\ IssuesIdle
    /\ DataIdle
    /\ ParseIdle
    /\ RegistryIdle

DoValidateType ==
    LET r == ValidateType(attribute, subject)
    IN /\ subject' = r.value
       /\ outcome' = AOp("validate_type", Validated(r.issues, r.value, {}, 0))
       /\ UNCHANGED attribute
       /\ UNCHANGED nonAttributeVars

DoValidate ==
    LET r == Validate(attribute, subject)
    IN /\ subject' = r.value
       /\ outcome' = AOp("validate", r)
       /\ UNCHANGED attribute
       /\ UNCHANGED nonAttributeVars

AttributesNext ==
    \/ DoValidateType
    \/ DoValidate

SpecAttributes == AttributesInit /\ [][AttributesNext]_vars

(***************************************************************************)
(* Claims about attribute validation                                       *)
(***************************************************************************)
\* the item fails the scalar type contract of the attribute
FailsType(a, x) == ~IsInstance(x, BASE_TYPES(a.kind))
\* the error codes recorded at a location
ErrorsAt(issues, loc) == IF loc \in DOMAIN issues.errors THEN issues.errors[loc] ELSE <<>>

\* C19: validate_type on a multi-valued attribute records an error at (i,)
\* and replaces item i by Invalid exactly when item i fails the scalar type
\* contract; the other items are unchanged and are reached by the
\* value-level checks of validate, the root stays proceedable; a non-list
\* value gives a single non-proceedable bad-type error at the root.
C19_MarksOffendingItems ==
    (outcome.op \in {"validate_type", "validate"} /\ attribute.multi_valued
       /\ outcome.pre # None) =>
      IF outcome.pre.t = "list"
      THEN /\ Len(subject.items) = Len(outcome.pre.items)
           /\ \A i \in DOMAIN outcome.pre.items :
                IF FailsType(attribute, outcome.pre.items[i])
                THEN /\ ErrorsAt(outcome.issues, <<i - 1>>) = <<2>>
                     /\ ~CanProceed(outcome.issues, <<i - 1>>)
                     /\ subject.items[i] = Invalid
                     /\ <<i - 1>> \notin outcome.reached
                ELSE IF outcome.op = "validate_type"
                     THEN /\ ErrorsAt(outcome.issues, <<i - 1>>) = <<>>
                          /\ CanProceed(outcome.issues, <<i - 1>>)
                          /\ subject.items[i] = outcome.pre.items[i]
                     ELSE /\ <<i - 1>> \in outcome.reached
                          /\ 2 \notin {ErrorsAt(outcome.issues, <<i - 1>>)[j] :
                                         j \in DOMAIN ErrorsAt(outcome.issues, <<i - 1>>)}
           /\ outcome.op = "validate_type" =>
                (CanProceed(outcome.issues, <<>>) /\ ErrorsAt(outcome.issues, <<>>) = <<>>)
           /\ outcome.op = "validate" => outcome.ran > 0 \/ attribute.validators = <<>>
      ELSE /\ outcome.issues.errors = (<<>> :> <<2>>)
           /\ ~CanProceed(outcome.issues, <<>>)
           /\ outcome.issues.warnings = <<>>
           /\ subject = outcome.pre

\* C19 witness: validate_type of an Integer attribute on [1, "yes", 5] marked
\* item 1 only
C19_Witness ==
    /\ outcome.op = "validate_type"
    /\ attribute.kind = "Integer" /\ attribute.multi_valued
    /\ outcome.pre = PyList(<<Py("int", "1"), Py("str", "yes"), Py("int", "5")>>)
    /\ subject = PyList(<<Py("int", "1"), Invalid, Py("int", "5")>>)
    /\ DOMAIN outcome.issues.errors = {<<1>>}

\* C20: validating a non-boolean value for the single-valued Boolean
\* attribute active gives exactly one error, of code 2, non-proceedable,
\* which the resource walk reports at ("active",); no value-level rule and no
\* custom validator is run.
C20_BooleanBadType ==
    (outcome.op = "validate" /\ attribute.kind = "Boolean" /\ ~attribute.multi_valued
       /\ outcome.pre.t \notin {"bool", "NoneType"}) =>
      /\ outcome.issues.errors = (<<>> :> <<2>>)
      /\ outcome.issues.warnings = <<>>
      /\ ~CanProceed(outcome.issues, <<>>)
      /\ outcome.walk.errors = (<<"active">> :> <<2>>)
      /\ outcome.walk.warnings = <<>>
      /\ ~CanProceed(outcome.walk, <<"active">>)
      /\ outcome.reached = {}
      /\ outcome.ran = 0

\* C20 witness: "yes" was validated for active, which has restricted
\* canonical values and two validators
C20_Witness ==
    /\ outcome.op = "validate"
    /\ attribute.kind = "Boolean" /\ ~attribute.multi_valued
    /\ attribute.has_canonical /\ attribute.restrict
    /\ attribute.validators = <<"fails", "warns">>
    /\ outcome.pre = Py("str", "yes")
    /\ outcome.walk.errors = (<<"active">> :> <<2>>)

\* an earlier step of validate recorded a non-proceedable error at the
\* attribute's own location: the type check, or the canonical values of a
\* single-valued attribute
BlockedBefore(a, val) ==
    \/ a.multi_valued /\ val.t # "list"
    \/ ~a.multi_valued /\ FailsType(a, val)
    \/ ~a.multi_valued /\ a.kind # "Complex" /\ a.restrict /\ ~IsCanonical(a, val)
\* the validators that record a non-proceedable error
Blocks(name) == name = "fails"
\* the number of validators up to the first that blocks
UpToFirstBlocking(vs) ==
    IF \E i \in DOMAIN vs : Blocks(vs[i])
    THEN CHOOSE i \in DOMAIN vs : Blocks(vs[i]) /\ \A j \in 1..(i - 1) : ~Blocks(vs[j])
    ELSE Len(vs)

\* C21: validate runs the validators in declaration order after the type and
\* value checks and skips the remaining ones only after a non-proceedable
\* error at the attribute's location; an error recorded with proceed=true
\* (multiple primary values) does not stop the validators after it
\* (duplicate type-value pairs).
C21_ValidatorsRunUnlessBlocked ==
    (outcome.op = "validate" /\ outcome.pre # None) =>
      outcome.ran = IF BlockedBefore(attribute, outcome.pre) THEN 0
                    ELSE UpToFirstBlocking(attribute.validators)

\* the type-value pairs that occur in more than one item, read off the list
DuplicatePairs(val) ==
    {<<val.items[i].items[1], val.items[i].items[2]>> :
       i \in {j \in DOMAIN val.items :
                /\ val.items[j].items[1].v # ""
                /\ val.items[j].items[2].v # ""
                /\ \E k \in DOMAIN val.items :
                     /\ k # j
                     /\ val.items[k].items[1] = val.items[j].items[1]
                     /\ val.items[k].items[2] = val.items[j].items[2]}}
Primaries(val) == {i \in DOMAIN val.items : val.items[i].items[3] = Py("bool", "True")}
CodesAt(codes, c) == {i \in DOMAIN codes : codes[i] = c}

\* C22: a multi-valued Complex attribute with a type and a value
\* sub-attribute carries the duplicate-pair validator: a list in which a
\* non-empty (type, value) pair occurs in more than one item yields warning
\* 2 once for each repeated pair and no error for it, a list without a
\* repeated pair yields no such warning.
C22_DuplicatePairsWarned ==
    (outcome.op = "validate" /\ attribute.kind = "Complex" /\ attribute.multi_valued
       /\ HasSubAttribute(attribute.sub_attributes, "type")
       /\ HasSubAttribute(attribute.sub_attributes, "value")) =>
      /\ \E i \in DOMAIN attribute.validators :
           attribute.validators[i] = "validate_type_value_pairs"
      /\ Cardinality(Primaries(outcome.pre)) <= 1 => outcome.issues.errors = <<>>
      /\ Cardinality(CodesAt(DictGet(outcome.issues.warnings, <<>>, <<>>), 2))
           = Cardinality(DuplicatePairs(outcome.pre))

(***************************************************************************)
(* Serialization of complex values (attributes.py: Attribute.serialize,    *)
(* Attribute.deserialize, Complex._serialize, Complex._deserialize).  The   *)
(* values are the container's; a bool is written as the integer it equals. *)
(***************************************************************************)
\* number of keys of a complex value
MaxKeys == 3

\* bool(value), int(value) and the identity of Unknown
GlobalSerializer(kind, v) ==
    CASE kind = "Boolean" ->
           Val(Scalar(IF (v.t = "scalar" /\ v.n # 0) \/ (v.t = "list" /\ v.items # <<>>)
                      THEN 1 ELSE 0))
      [] kind = "Integer" -> IF v.t = "scalar" THEN Val(v) ELSE Err("TypeError")
      [] OTHER -> Val(v)

\* Attribute.serialize and Attribute.deserialize of a sub-attribute
Serialize(a, v) ==
    IF a.multi_valued /\ v.t = "list"
    THEN IF \E i \in DOMAIN v.items : GlobalSerializer(a.kind, v.items[i]).raised # "none"
         THEN Err("TypeError")
         ELSE Val(List([i \in DOMAIN v.items |-> GlobalSerializer(a.kind, v.items[i]).val]))
    ELSE GlobalSerializer(a.kind, v)

\* a lookup of the sub-attribute under its name as declared
SubAttrValueExact(c, sub_attr) ==
    Val(IF OHas(c.data, sub_attr.name) THEN OGet(c.data, sub_attr.name) ELSE Missing)
\* value.get(sub_attr.rep)
SubAttrValue(c, sub_attr) == GetKey(c, AttrKey(sub_attr.name, ""), Missing)

\* the loop of Complex._serialize and Complex._deserialize from
\* sub-attribute i on
RECURSIVE SerializeSubAttributesFrom(_, _, _, _)
SerializeSubAttributesFrom(a, c, i, serialized) ==
    IF i > Len(a.sub_attributes) THEN Done(serialized)
    ELSE LET sub_attr == a.sub_attributes[i]
             sub_attr_value == SubAttrValue(c, sub_attr).val
         IN IF sub_attr_value = Missing
            THEN SerializeSubAttributesFrom(a, c, i + 1, serialized)
            ELSE IF Serialize(sub_attr, sub_attr_value).raised # "none"
                 THEN Raise(serialized, Serialize(sub_attr, sub_attr_value).raised)
                 ELSE SerializeSubAttributesFrom(
                        a, c, i + 1,
                        SetKey(serialized, AttrKey(sub_attr.name, ""),
                               Serialize(sub_attr, sub_attr_value).val).c)

\* Complex._serialize
ComplexSerialize(a, value) ==
    LET r == SerializeSubAttributesFrom(a, Construct(value.kv), 1, EmptyContainer)
    IN [val |-> RawDict(ToDict(r.c)), raised |-> r.raised]
\* Complex._deserialize
ComplexDeserialize(a, value) ==
    LET r == SerializeSubAttributesFrom(a, Construct(value.kv), 1, EmptyContainer)
    IN [val |-> Scim(r.c), raised |-> r.raised]

\* the complex attributes and the values they are given
SerializedAttributes ==
    {ComplexNew("name", FALSE, subs, <<>>) :
       subs \in {<<AttributeNew("Integer", "Given"), AttributeNew("Boolean", "b")>>,
                 <<AttributeNew("Boolean", "b"),
                   [AttributeNew("Integer", "given") EXCEPT !.multi_valued = TRUE],
                   AttributeNew("Unknown", "PR")>>}}
SerializedKeys == {"given", "GIVEN", "b", "B", "pr", "name"}
SerializedValues == {Scalar(0), Scalar(5), List(<<Scalar(5)>>)}
SerializedDicts ==
    {RawDict(kv) : kv \in {s \in UNION {[1..n -> SerializedKeys \X SerializedValues] : n \in 0..MaxKeys} :
                            \A i, j \in DOMAIN s : i # j => s[i][1] # s[j][1]}}

SerializeInit ==
    /\ attribute \in SerializedAttributes
    /\ subject \in SerializedDicts
    /\ outcome = [op |-> "init"]
    /\ IssuesIdle
    /\ DataIdle
    /\ RegistryIdle
    /\ ParseIdle

\* Complex.serialize(value)
DoSerialize ==
    /\ outcome.op = "init"
    /\ outcome' = [op |-> "serialize",
                   val |-> ComplexSerialize(attribute, subject).val,
                   raised |-> ComplexSerialize(attribute, subject).raised]
    /\ UNCHANGED <<attribute, subject>>
    /\ UNCHANGED nonAttributeVars

\* Complex.deserialize(value)
DoDeserializeComplex ==
    /\ outcome.op = "init"
    /\ outcome' = [op |-> "deserialize",
                   val |-> ComplexDeserialize(attribute, subject).val,
                   raised |-> ComplexDeserialize(attribute, subject).raised]
    /\ UNCHANGED <<attribute, subject>>
    /\ UNCHANGED nonAttributeVars

SerializeNext == DoSerialize \/ DoDeserializeComplex

SpecSerialize == SerializeInit /\ [][SerializeNext]_vars

\* the keys of the input that name the sub-attribute, letter case ignored
KeysFor(kv, sub_attr) == {i \in DOMAIN kv : Lower(kv[i][1]) = Lower(sub_attr.name)}
\* the declared sub-attributes the input has a key for
PresentSubAttributes(a, kv) ==
    {i \in DOMAIN a.sub_attributes : KeysFor(kv, a.sub_attributes[i]) # {}}

\* C23: the result of Complex serialize and deserialize has exactly the
\* declared sub-attributes that are present in the input, letter case
\* ignored, each with the sub-attribute's own serialize or deserialize of its
\* value; absent sub-attributes are not added and undeclared keys are gone.
C23_OnlyDeclaredSubAttributes ==
    (outcome.op \in {"serialize", "deserialize"} /\ outcome.raised = "none") =>
      /\ outcome.val.t = IF outcome.op = "serialize" THEN "dict" ELSE "scim"
      /\ OKeys(outcome.val.kv) =
           {attribute.sub_attributes[i].name : i \in PresentSubAttributes(attribute, subject.kv)}
      /\ Len(outcome.val.kv) = Cardinality(PresentSubAttributes(attribute, subject.kv))
      /\ \A i \in PresentSubAttributes(attribute, subject.kv) :
           \E k \in KeysFor(subject.kv, attribute.sub_attributes[i]) :
             /\ Serialize(attribute.sub_attributes[i], subject.kv[k][2]).raised = "none"
             /\ OGet(outcome.val.kv, attribute.sub_attributes[i].name)
                  = Serialize(attribute.sub_attributes[i], subject.kv[k][2]).val

\* C23 witness: {GIVEN: 5, name: 0} serialized by a complex attribute with the
\* sub-attributes Given and b gives {Given: 5}
C23_Witness ==
    /\ outcome.op = "serialize"
    /\ subject.kv = <<<<"GIVEN", Scalar(5)>>, <<"name", Scalar(0)>>>>
    /\ Len(attribute.sub_attributes) = 2
    /\ outcome.raised = "none"
    /\ outcome.val = RawDict(<<<<"Given", Scalar(5)>>>>)

(***************************************************************************)
(* The sorter (sorter.py): Sorter.__call__ on a list of mappings, sorted   *)
(* by an Integer attribute of the schema.                                   *)
(***************************************************************************)
\* number of items of a sorted list
MaxSorted == 4

\* a sort key: AlwaysLastKey, or the value itself
AlwaysLastKey == [last |-> TRUE, n |-> 0]
ValueKey(v) == [last |-> FALSE, n |-> v.n]

\* x < y as sorted evaluates it: int.__lt__, AlwaysLastKey.__lt__ and the
\* reflected AlwaysLastKey.__gt__
KeyLt(x, y) == ~x.last /\ (y.last \/ x.n < y.n)

\* bool(value) of a container value
IsTruthy(v) ==
    \/ v.t = "scalar" /\ v.n # 0
    \/ v.t = "list" /\ v.items # <<>>
    \/ v.t \in {"dict", "scim"} /\ v.kv # <<>>

\* Sorter._get_key, for a value that is no string
SorterGetKey(v) == IF ~IsTruthy(v) THEN AlwaysLastKey ELSE ValueKey(v)

\* Sorter._attr_key for an attribute the schema has
SorterAttrKey(a, item) ==
    LET item_value == GetKey(item, AttrKey(a.name, ""), Missing).val
    IN IF item_value # Missing /\ a.multi_valued
       THEN SorterGetKey(item_value.items[1])
       ELSE SorterGetKey(item_value)

\* sorted(data, key=key): every item goes before the first one its key is
\* less than
InsertByKey(a, s, x) ==
    LET after == {i \in DOMAIN s : KeyLt(SorterAttrKey(a, x), SorterAttrKey(a, s[i]))}
        pos == IF after = {} THEN Len(s) + 1
               ELSE CHOOSE i \in after : \A j \in after : i <= j
    IN SubSeq(s, 1, pos - 1) \o <<x>> \o SubSeq(s, pos, Len(s))
RECURSIVE SortedByKey(_, _)
SortedByKey(a, data) ==
    IF data = <<>> THEN <<>>
    ELSE InsertByKey(a, SortedByKey(a, SubSeq(data, 1, Len(data) - 1)), data[Len(data)])

\* sorted(data, key=key, reverse=not asc): a reverse sort keeps the items with
\* equal keys in their original order
SortedReverse(a, data, reverse) ==
    IF reverse THEN Reversed(SortedByKey(a, Reversed(data))) ELSE SortedByKey(a, data)

\* Sorter._sort
SorterSort(a, data, asc) ==
    IF ~\E i \in DOMAIN data : IsTruthy(GetKey(data[i], AttrKey(a.name, ""), Missing).val)
    THEN data
    ELSE SortedReverse(a, data, ~asc)

\* Sorter.__call__ on a list of dicts
SorterCall(a, data, asc) ==
    IF data = <<>> THEN data
    ELSE LET normalized == [i \in DOMAIN data |-> Construct(data[i].kv)]
             sorted == SorterSort(a, normalized, asc)
         IN [i \in DOMAIN sorted |-> RawDict(ToDict(sorted[i]))]

\* the sort attributes, and the lists of items: item i has the id i and the
\* attribute b, written b or B, or lacks it
SortAttributes ==
    {AttributeNew("Integer", "b"), [AttributeNew("Integer", "b") EXCEPT !.multi_valued = TRUE]}
SortValues(a) ==
    IF a.multi_valued THEN {List(<<Scalar(n), Scalar(1)>>) : n \in 0..2} ELSE {Scalar(n) : n \in 0..2}
SortItems(a, i) ==
    {RawDict(<<<<"id", Scalar(i)>>>>)}
      \cup {RawDict(<<<<k, v>>, <<"id", Scalar(i)>>>>) : k \in {"b", "B"}, v \in SortValues(a)}
SortLists(a) ==
    UNION {{s \in [1..n -> UNION {SortItems(a, i) : i \in 1..n}] :
              \A i \in 1..n : s[i] \in SortItems(a, i)} : n \in 0..MaxSorted}

SorterInit ==
    /\ attribute \in SortAttributes
    /\ subject \in SortLists(attribute)
    /\ outcome = [op |-> "init"]
    /\ IssuesIdle
    /\ DataIdle
    /\ RegistryIdle
    /\ ParseIdle

\* Sorter(attr_rep, asc)(data, schema)
DoSort ==
    \E asc \in BOOLEAN :
      /\ outcome.op = "init"
      /\ outcome' = [op |-> "sort", asc |-> asc, val |-> SorterCall(attribute, subject, asc)]
      /\ UNCHANGED <<attribute, subject>>
      /\ UNCHANGED nonAttributeVars

SorterNext == DoSort

SpecSorter == SorterInit /\ [][SorterNext]_vars

\* the value an item has for the sort attribute, if it has one
HasSortValue(item) == \E i \in DOMAIN item.kv : Lower(item.kv[i][1]) = "b"
SortValueOf(item) ==
    LET v == item.kv[CHOOSE i \in DOMAIN item.kv : Lower(item.kv[i][1]) = "b"][2]
    IN IF v.t = "list" THEN v.items[1].n ELSE v.n
IsPermutation(s, t) ==
    /\ Len(s) = Len(t)
    /\ \E p \in [DOMAIN s -> DOMAIN s] :
         /\ \A i, j \in DOMAIN s : i # j => p[i] # p[j]
         /\ \A i \in DOMAIN s : t[i] = s[p[i]]

\* C27: the sorter returns a permutation of its input; ascending, the items
\* with a value for the sort attribute come first in non-decreasing order and
\* the items without it last; descending, the items without it come first
\* and the others follow in non-increasing order; when no item has a value
\* the original order is returned.
C27_SortedByAttribute ==
    outcome.op = "sort" =>
      /\ IsPermutation(subject, outcome.val)
      /\ \A i, j \in DOMAIN outcome.val :
           i < j =>
             IF outcome.asc
             THEN /\ HasSortValue(outcome.val[j]) => HasSortValue(outcome.val[i])
                  /\ HasSortValue(outcome.val[j]) =>
                       SortValueOf(outcome.val[i]) <= SortValueOf(outcome.val[j])
             ELSE /\ HasSortValue(outcome.val[i]) => HasSortValue(outcome.val[j])
                  /\ HasSortValue(outcome.val[i]) =>
                       SortValueOf(outcome.val[i]) >= SortValueOf(outcome.val[j])
      /\ (\A i \in DOMAIN subject : ~HasSortValue(subject[i])) => outcome.val = subject

(***************************************************************************)
(* Equality and hashing of attribute representations (container.py:        *)
(* AttrRep, BoundedAttrRep).  A hash is modelled by the tuple it is        *)
(* computed from.                                                          *)
(***************************************************************************)
\* AttrRep(attr, sub_attr) and BoundedAttrRep(schema, attr, sub_attr); no
\* sub-attribute is written ""
AttrRepNew(attr, sub) == [kind |-> "AttrRep", schema |-> "", attr |-> attr, sub |-> sub]
BoundedAttrRepNew(schema, attr, sub) ==
    [kind |-> "BoundedAttrRep", schema |-> schema, attr |-> attr, sub |-> sub]

\* AttrRep.__eq__
AttrRepEq(x, y) == Lower(x.attr) = Lower(y.attr) /\ Lower(x.sub) = Lower(y.sub)
\* BoundedAttrRep.__eq__
BoundedAttrRepEq(x, y) ==
    IF y.kind # "BoundedAttrRep" THEN AttrRepEq(x, y)
    ELSE AttrRepEq(x, y) /\ Lower(x.schema) = Lower(y.schema)
\* x == y: the __eq__ of the left operand, or first the reflected __eq__ of
\* the right operand when its class is a subclass of the left operand's
RepEq(x, y) ==
    IF x.kind = "BoundedAttrRep" THEN BoundedAttrRepEq(x, y)
    ELSE IF y.kind = "BoundedAttrRep" THEN BoundedAttrRepEq(y, x)
    ELSE AttrRepEq(x, y)
\* AttrRep.__hash__ and BoundedAttrRep.__hash__
RepHash(x) ==
    IF x.kind = "BoundedAttrRep" THEN <<Lower(x.attr), Lower(x.schema), Lower(x.sub)>>
    ELSE <<Lower(x.attr), Lower(x.sub)>>

\* the representations compared
Reps ==
    {AttrRepNew(attr, sub) : attr \in {"name", "NAME", "b"}, sub \in {"", "given"}}
      \cup {BoundedAttrRepNew(schema, attr, sub) :
              schema \in {"urn:user", "URN:USER", "urn:ext"},
              attr \in {"name", "NAME", "b"}, sub \in {"", "given"}}

RepsInit ==
    /\ attribute = [kind |-> "none"]
    /\ subject \in Reps \X Reps \X Reps
    /\ outcome = [op |-> "init"]
    /\ IssuesIdle
    /\ DataIdle
    /\ RegistryIdle
    /\ ParseIdle

\* x == y and hash(x) for the three representations
DoCompare ==
    /\ outcome.op = "init"
    /\ outcome' = [op |-> "compare",
                   eq |-> [i \in 1..3 |-> [j \in 1..3 |-> RepEq(subject[i], subject[j])]],
                   hash |-> [i \in 1..3 |-> RepHash(subject[i])]]
    /\ UNCHANGED <<attribute, subject>>
    /\ UNCHANGED nonAttributeVars

RepsNext == DoCompare

SpecReps == RepsInit /\ [][RepsNext]_vars

\* C30: equality of attribute representations, bare or schema-bound in any
\* mix, is symmetric and transitive, and representations that compare equal
\* have the same hash.
C30_EqualityIsEquivalence ==
    outcome.op = "compare" =>
      \A i, j, k \in 1..3 :
        /\ outcome.eq[i][i]
        /\ outcome.eq[i][j] => outcome.eq[j][i]
        /\ (outcome.eq[i][j] /\ outcome.eq[j][k]) => outcome.eq[i][k]
        /\ outcome.eq[i][j] => outcome.hash[i] = outcome.hash[j]

(***************************************************************************)
(* ValidationIssues.pop_errors (error.py)                                  *)
(***************************************************************************)
\* dict.pop(key)
DictPop(d, k) == [x \in DOMAIN d \ {k} |-> d[x]]

\* the loop of pop_errors over self._errors[location] from position i on:
\* the list is changed while it is iterated, the position moves on by one
\* after a removal as after any item
RECURSIVE PopErrorsFrom(_, _, _, _)
PopErrorsFrom(errors, stop, codes, i) ==
    IF i > Len(errors) THEN [errors |-> errors, stop |-> stop]
    ELSE IF errors[i] \in codes
         THEN PopErrorsFrom(SubSeq(errors, 1, i - 1) \o SubSeq(errors, i + 1, Len(errors)),
                            stop \ {errors[i]}, codes, i + 1)
         ELSE PopErrorsFrom(errors, stop, codes, i + 1)

\* ValidationIssues.pop_errors
PopErrors(t, codes, loc) ==
    IF loc \notin DOMAIN t.errors THEN [tree |-> t, popped |-> NewIssues]
    ELSE LET r == PopErrorsFrom(t.errors[loc], DictGet(t.stop, loc, {}), codes, 1)
             errors == IF r.errors = <<>> THEN DictPop(t.errors, loc)
                       ELSE DictPut(t.errors, loc, r.errors)
             stop == IF loc \notin DOMAIN t.stop THEN t.stop
                     ELSE IF r.stop = {} THEN DictPop(t.stop, loc)
                     ELSE DictPut(t.stop, loc, r.stop)
         IN [tree |-> [t EXCEPT !.errors = errors, !.stop = stop],
             popped |-> Get(t, SomeFilter(codes), SomeFilter({}), loc)]

\* self.pop_errors(codes, location); the popped tree is kept in last.arg
DoPopErrors ==
    \E codes \in SUBSET Codes, loc \in Locs :
      LET r == PopErrors(self, codes, loc) IN
        /\ nops < MaxOps
        /\ self' = r.tree
        /\ last' = Op("pop_errors", self, r.popped, loc, SomeFilter(codes), NoneFilter, "none")
        /\ nops' = nops + 1
        /\ UNCHANGED <<other, recorded, clean>>
        /\ UNCHANGED nonIssueVars

PopNext == AddErrorSelf \/ DoPopErrors

SpecPop == IssuesInit /\ [][PopNext]_vars

\* the errors of a list with a code in codes, and the others
Matching(errors, codes) == SelectSeq(errors, LAMBDA c : c \in codes)
NotMatching(errors, codes) == SelectSeq(errors, LAMBDA c : c \notin codes)
\* a dictionary without the keys that hold nothing
NonEmpty(d, empty) == [k \in {x \in DOMAIN d : d[x] # empty} |-> d[k]]

\* C29: pop_errors(codes, location) removes from the tree every error at the
\* location whose code is in codes, consecutive ones included, together with
\* the matching blocking codes, keeps all other errors, and returns a tree
\* with exactly the removed errors and nothing from deeper locations.
C29_PopErrorsRemovesAll ==
    (last.op = "pop_errors" /\ last.prefix \in DOMAIN last.pre.errors) =>
      LET loc == last.prefix
          codes == last.ec.codes
          before == last.pre.errors[loc]
      IN /\ NonEmpty(self.errors, <<>>)
              = NonEmpty(DictPut(last.pre.errors, loc, NotMatching(before, codes)), <<>>)
         /\ NonEmpty(self.stop, {})
              = NonEmpty(DictPut(last.pre.stop, loc,
                                 DictGet(last.pre.stop, loc, {}) \ codes), {})
         /\ NonEmpty(last.arg.errors, <<>>)
              = NonEmpty(DictPut(<<>>, <<>>, Matching(before, codes)), <<>>)
         /\ last.arg.warnings = <<>>

(***************************************************************************)
(* Bounded attributes (attributes.py: BoundedAttributes).  The dictionaries *)
(* _attrs and _extensions are sequences of <<key, value>> pairs in          *)
(* insertion order.                                                         *)
(***************************************************************************)
\* number of extend calls in one run
MaxExtends == 2

\* attr.clone(BoundedAttrRep(schema, attr.rep.attr, extension=...,
\* extension_required=...))
BoundAttr(schema, a, extension, extension_required) ==
    [schema |-> schema, extension |-> extension,
     extension_required |-> extension_required, attr |-> a]

\* the loop of _refresh_attrs over the raw attributes
RECURSIVE BindRawAttrs(_, _, _)
BindRawAttrs(b, i, attrs) ==
    IF i > Len(b.raw_attrs) THEN attrs
    ELSE BindRawAttrs(b, i + 1,
                      OSet(attrs, <<b.schema, b.raw_attrs[i].name>>,
                           BoundAttr(b.schema, b.raw_attrs[i], b.extension,
                                     b.extension_required)))
\* the loops of _refresh_attrs over the extensions and their attributes
RECURSIVE AddAttrsOf(_, _, _)
AddAttrsOf(ext, i, attrs) ==
    IF i > Len(ext.attrs) THEN attrs
    ELSE AddAttrsOf(ext, i + 1, OSet(attrs, ext.attrs[i][1], ext.attrs[i][2]))
RECURSIVE AddExtensionAttrs(_, _, _)
AddExtensionAttrs(extensions, i, attrs) ==
    IF i > Len(extensions) THEN attrs
    ELSE AddExtensionAttrs(extensions, i + 1, AddAttrsOf(extensions[i][2], 1, attrs))

\* BoundedAttributes._refresh_attrs
RefreshAttrs(b) ==
    LET own == BindRawAttrs(b, 1, <<>>)
    IN [b EXCEPT
          !.attrs = AddExtensionAttrs(b.extensions, 1, own),
          !.core_attrs = SelectSeq([i \in DOMAIN b.raw_attrs |->
                                      BoundAttr(b.schema, b.raw_attrs[i], b.extension,
                                                b.extension_required)],
                                   LAMBDA x : Lower(x.attr.name) \notin b.common_attrs)]

\* BoundedAttributes.__init__
BoundedAttributesNew(schema, attrs, extension, extension_required, common_attrs) ==
    RefreshAttrs([schema |-> schema, raw_attrs |-> attrs, extension |-> extension,
                  extension_required |-> extension_required,
                  common_attrs |-> {Lower(item) : item \in common_attrs},
                  extensions |-> <<>>, attrs |-> <<>>, core_attrs |-> <<>>])

\* BoundedAttributes.extend
Extend(b, attrs, schema, required) ==
    RefreshAttrs([b EXCEPT !.extensions =
                    OSet(b.extensions, Lower(schema),
                         BoundedAttributesNew(schema, attrs, TRUE, required, {}))])

\* Attribute.clone(attr_filter=attr_filter): a Complex keeps the
\* sub-attributes that satisfy the filter
CloneAttr(a, attr_filter) ==
    [a EXCEPT !.sub_attributes = SelectSeq(a.sub_attributes, LAMBDA s : s.name \in attr_filter)]

\* BoundedAttributes.clone; the filter is the set of the names it accepts
RECURSIVE Clone(_, _)
Clone(b, attr_filter) ==
    LET kept == SelectSeq(b.raw_attrs, LAMBDA a : a.name \in attr_filter)
        cloned == BoundedAttributesNew(b.schema, <<>>, FALSE, "None", {})
    IN RefreshAttrs([cloned EXCEPT
                       !.raw_attrs = [i \in DOMAIN kept |-> CloneAttr(kept[i], attr_filter)],
                       !.extensions = [i \in DOMAIN b.extensions |->
                                         <<b.extensions[i][1],
                                           Clone(b.extensions[i][2], attr_filter)>>]])

\* a comparison of the attribute names alone
RepMatchesByName(schema, attr, top_level_rep) == Lower(attr) = Lower(top_level_rep.attr)
\* BoundedAttrRep(schema, attr) == top_level_rep
RepMatches(schema, attr, top_level_rep) ==
    BoundedAttrRepEq(BoundedAttrRepNew(schema, attr, ""), top_level_rep)

NoAttr == [found |-> "None", schema |-> "", attr |-> "", sub |-> "", extension |-> FALSE]
FoundAttr(x, sub) ==
    [found |-> "attr", schema |-> x.schema, attr |-> x.attr.name, sub |-> sub,
     extension |-> x.extension]

\* BoundedAttributes.get
RECURSIVE GetAttr(_, _)
GetAttr(b, attr_rep) ==
    IF OHas(b.extensions, Lower(attr_rep.schema))
    THEN GetAttr(OGet(b.extensions, Lower(attr_rep.schema)), attr_rep)
    ELSE LET top_level_rep == BoundedAttrRepNew(attr_rep.schema, attr_rep.attr, "")
             matches == {i \in DOMAIN b.attrs :
                           RepMatches(b.attrs[i][1][1], b.attrs[i][1][2], top_level_rep)}
         IN IF matches = {} THEN NoAttr
            ELSE LET attr_obj == b.attrs[CHOOSE i \in matches : \A j \in matches : j <= i][2]
                     subs == {i \in DOMAIN attr_obj.attr.sub_attributes :
                                Lower(attr_obj.attr.sub_attributes[i].name) = Lower(attr_rep.sub)}
                 IN IF attr_rep.sub = "" THEN FoundAttr(attr_obj, "")
                    ELSE IF attr_obj.attr.kind # "Complex"
                         THEN [NoAttr EXCEPT !.found = "TypeError"]
                    ELSE IF subs = {} THEN NoAttr
                    ELSE FoundAttr(attr_obj,
                                   attr_obj.attr.sub_attributes[CHOOSE i \in subs :
                                                                  \A j \in subs : i <= j].name)

\* the base schema with its attributes, and what it is extended with
BaseAttrs ==
    <<AttributeNew("String", "id"),
      [AttributeNew("String", "schemas") EXCEPT !.multi_valued = TRUE],
      ComplexNew("name", FALSE, <<AttributeNew("String", "given")>>, <<>>),
      AttributeNew("Integer", "b")>>
ExtensionAttrs ==
    {<<AttributeNew("Integer", "b")>>,
     <<AttributeNew("String", "name"), AttributeNew("Integer", "pr")>>}
ExtensionURIs == {"urn:ext", "URN:EXT"}
AttrFilters == {{"id", "schemas", "name", "given", "b", "pr"}, {"id", "name", "pr"}, {}}
LookedUp ==
    {BoundedAttrRepNew(schema, attr, sub) :
       schema \in {"urn:user", "URN:USER", "urn:ext", "URN:EXT"},
       attr \in {"id", "name", "NAME", "b", "B", "pr"},
       sub \in {"", "given", "GIVEN"}}

BOp(name, n) ==
    [op |-> name, n |-> n, pre |-> subject, schema |-> "", raised |-> "none", rep |-> NoRep,
     result |-> NoAttr, filter |-> {}, cloned |-> <<>>]

BoundedInit ==
    /\ attribute = [kind |-> "none"]
    /\ subject = BoundedAttributesNew("urn:user", BaseAttrs, FALSE, "None", {"id", "schemas"})
    /\ outcome = [op |-> "init", n |-> 0]
    /\ IssuesIdle
    /\ DataIdle
    /\ RegistryIdle
    /\ ParseIdle

\* attrs.extend(extension_attrs, schema, required)
DoExtend ==
    \E attrs \in ExtensionAttrs, schema \in ExtensionURIs, required \in BOOLEAN :
      /\ outcome.n < MaxExtends
      /\ subject' = Extend(subject, attrs, schema, required)
      /\ outcome' = [BOp("extend", outcome.n + 1) EXCEPT !.schema = schema]
      /\ UNCHANGED attribute
      /\ UNCHANGED nonAttributeVars

\* attrs.get(attr_rep), once the extensions are attached
DoGetAttr ==
    \E attr_rep \in LookedUp :
      /\ outcome.op \in {"init", "extend"}
      /\ outcome' = [BOp("get", outcome.n) EXCEPT
                       !.rep = attr_rep, !.result = GetAttr(subject, attr_rep)]
      /\ UNCHANGED <<attribute, subject>>
      /\ UNCHANGED nonAttributeVars

\* attrs.clone(attr_filter), once the extensions are attached
DoClone ==
    \E attr_filter \in AttrFilters :
      /\ outcome.op \in {"init", "extend"}
      /\ outcome' = [BOp("clone", outcome.n) EXCEPT
                       !.filter = attr_filter, !.cloned = Clone(subject, attr_filter)]
      /\ UNCHANGED <<attribute, subject>>
      /\ UNCHANGED nonAttributeVars

BoundedNext == DoExtend \/ DoGetAttr \/ DoClone

SpecBounded == BoundedInit /\ [][BoundedNext]_vars

\* the attributes declared for a schema whose name is the given one, letter
\* case ignored
Declared(attrs, name) == {i \in DOMAIN attrs : Lower(attrs[i].name) = Lower(name)}

\* C24: for bounded attributes of a base schema extended with an extension
\* schema, get with a path qualified by the extension URI returns the
\* extension's attribute of that name, letter case ignored, and none when the
\* extension has no such attribute; qualified by the base URI it returns the
\* base schema's attribute of that name and none for a name only the
\* extension has.
C24_GetHonoursSchema ==
    (outcome.op = "get" /\ outcome.rep.sub = "" /\ subject.extensions # <<>>) =>
      LET own == IF Lower(outcome.rep.schema) = Lower(subject.schema)
                 THEN subject.raw_attrs
                 ELSE OGet(subject.extensions, Lower(outcome.rep.schema)).raw_attrs
          declared == Declared(own, outcome.rep.attr)
      IN IF declared = {} THEN outcome.result.found = "None"
         ELSE /\ outcome.result.found = "attr"
              /\ Lower(outcome.result.schema) = Lower(outcome.rep.schema)
              /\ outcome.result.extension = (Lower(outcome.rep.schema) # Lower(subject.schema))
              /\ \E i \in declared : outcome.result.attr = own[i].name

\* C24 witness: the extension's attribute b was returned for URN:EXT:B
C24_Witness ==
    /\ outcome.op = "get"
    /\ outcome.rep = BoundedAttrRepNew("URN:EXT", "B", "")
    /\ subject.extensions # <<>>
    /\ outcome.result.found = "attr"
    /\ outcome.result.extension
    /\ outcome.result.attr = "b"

\* C25: a second extend with a schema URI that is already attached, in any
\* letter case, raises an error and leaves the extensions and the attributes
\* as they were after the first call.
C25_ExtendOnceOrRaise ==
    (outcome.op = "extend" /\ OHas(outcome.pre.extensions, Lower(outcome.schema))) =>
      /\ outcome.raised # "none"
      /\ subject = outcome.pre

\* the schema and name of the bound attributes
Names(attrs) == [i \in DOMAIN attrs |-> <<attrs[i][2].schema, attrs[i][2].attr.name>>]
CoreNames(core_attrs) == [i \in DOMAIN core_attrs |-> core_attrs[i].attr.name]

\* C26: clone(keep_if) holds exactly the attributes that satisfy keep_if,
\* its extensions filtered by the same predicate, and is otherwise
\* configured like the original: with a predicate that accepts every
\* attribute it has the same attributes, the same core attributes, the
\* common attributes still left out of them, and the same extensions; the
\* original is not modified.
C26_CloneKeepsConfiguration ==
    outcome.op = "clone" =>
      /\ subject = outcome.pre
      /\ Names(outcome.cloned.attrs)
           = SelectSeq(Names(subject.attrs), LAMBDA x : x[2] \in outcome.filter)
      /\ Len(outcome.cloned.extensions) = Len(subject.extensions)
      /\ \A i \in DOMAIN subject.extensions :
           /\ outcome.cloned.extensions[i][1] = subject.extensions[i][1]
           /\ Names(outcome.cloned.extensions[i][2].attrs)
                = SelectSeq(Names(subject.extensions[i][2].attrs),
                            LAMBDA x : x[2] \in outcome.filter)
      /\ CoreNames(outcome.cloned.core_attrs)
           = SelectSeq(CoreNames(subject.core_attrs), LAMBDA x : x \in outcome.filter)
      /\ (\A i \in DOMAIN subject.raw_attrs : subject.raw_attrs[i].name \in outcome.filter) =>
           outcome.cloned.common_attrs = subject.common_attrs

(***************************************************************************)
(* The index of SCIMData                                                   *)
(***************************************************************************)
\* every index entry points to a stored key, and every stored key is indexed
\* under its lower-cased form
IndexAgrees(c) ==
    /\ \A k \in DOMAIN c.idx : OHas(c.data, c.idx[k])
    /\ \A i \in DOMAIN c.data :
         /\ Lower(c.data[i][1]) \in DOMAIN c.idx
         /\ c.idx[Lower(c.data[i][1])] = c.data[i][1]

\* C28: after any sequence of construction, set and pop the index and the
\* data of a container agree, and get, set and pop on a path, an
\* extension-qualified path after the extension was popped included, never
\* raise the error of an internal lookup.
C28_IndexAgreesWithData ==
    /\ IndexAgrees(scim)
    /\ clast.raised # "LookupError"

====
